---------------------------- MODULE Spec2Model ----------------------------
(***************************************************************************)
(* Live-telemetry replay of arctic-trace-watch.                            *)
(*                                                                         *)
(*   Producer  : src/src/components/LiveProducer.tsx                       *)
(*   Channel   : src/src/services/realtime.ts (RealtimeManager)            *)
(*   Consumer  : src/unnamed/part_006 (useRealtimeTelemetry) and           *)
(*               src/src/components/Dashboard.tsx:570-706 (TrajectoryMap)  *)
(*                                                                         *)
(* JavaScript runs every task to its next await; an await on network I/O   *)
(* (broadcastTick -> channel.send) is a suspension point at which timer    *)
(* callbacks and click handlers may run.  Each action below is one such    *)
(* run-to-await segment.                                                   *)
(*                                                                         *)
(* Coordinates are JavaScript numbers, that is IEEE-754 doubles: every     *)
(* literal, difference, product, quotient and sum of an interpolation is   *)
(* rounded to the nearest double, ties to even, as the engine does.  The   *)
(* random speed / course payload of an observation                         *)
(* (LiveProducer.tsx:49-50) is read by no operation and is left out of the *)
(* observation record.                                                     *)
(***************************************************************************)
EXTENDS Integers, Sequences, FiniteSets, TLC

(***************************************************************************)
(* Bounds                                                                  *)
(***************************************************************************)
\* interpolation steps of the producer (LiveProducer.tsx:38 sets 20)
steps == 2
\* number of startStream calls explored
MaxSessions == 2
\* number of startStream calls explored when sessions are restarted
MaxRestarts == 3
\* timer callbacks of one session simultaneously awaiting broadcastTick
MaxInflight == 2
\* ticks handed to the transport in one exploration
MaxTicks == 6
\* ticks a consumer handles in one exploration
MaxReceived == 3
\* live-mode toggles in one exploration
MaxToggles == 2
\* TrajectoryMap instances mounted in one exploration
MaxMapMounts == 2
\* query results the dashboard receives in one exploration
MaxResponses == 2
\* interpolation steps of the consumer (Dashboard.tsx:671)
stepsInterpolate == 10

Null == 0

(***************************************************************************)
(* Inputs: trajectory summaries (src/unnamed/part_004:3-18)                *)
(***************************************************************************)
Undefined == -1

(***************************************************************************)
(* JavaScript numbers.  A double is [neg, hi, lo, e] with value            *)
(* (-1)^neg * (hi * 2^27 + lo) * 2^e: a mantissa of 53 bits, its upper 26  *)
(* in hi (2^25 <= hi < 2^26) and its lower 27 in lo; zero has hi = 0.      *)
(* Every intermediate integer stays below 2^31.  The values met here are   *)
(* far from overflow and from the subnormal range.                         *)
(***************************************************************************)
Zero == [neg |-> FALSE, hi |-> 0, lo |-> 0, e |-> 0]

\* the sticky bit: a lowest bit set when bits below it were cut off
Jam(x, lost) == IF lost /\ x % 2 = 0 THEN x + 1 ELSE x

\* the double nearest to (-1)^neg * (hi * 2^30 + lo) * 2^e, ties to even,
\* for hi of 26 bits; the lowest bits of lo are guard, round and sticky bit
Rounded(neg, hi, lo, e) ==
    LET grs == lo % 8
        m   == lo \div 8
        m1  == IF grs > 4 \/ (grs = 4 /\ m % 2 = 1) THEN m + 1 ELSE m
        h1  == IF m1 = 2^27 THEN hi + 1 ELSE hi
    IN  IF h1 = 2^26
        THEN [neg |-> neg, hi |-> 2^25, lo |-> 0, e |-> e + 4]
        ELSE [neg |-> neg, hi |-> h1, lo |-> m1 % 2^27, e |-> e + 3]

\* floor((hi * 2^30 + lo) / 2^d) with the sticky bit, for d >= 0
ShiftRightJam(hi, lo, d) ==
    IF d = 0 THEN [hi |-> hi, lo |-> lo]
    ELSE IF d < 30
    THEN [ hi |-> hi \div 2^d,
           lo |-> Jam(lo \div 2^d + (hi % 2^d) * 2^(30 - d), lo % 2^d # 0) ]
    ELSE IF d < 56
    THEN [ hi |-> 0,
           lo |-> Jam(hi \div 2^(d - 30), hi % 2^(d - 30) # 0 \/ lo # 0) ]
    ELSE [hi |-> 0, lo |-> 1]

\* the number of bits of n, 0 <= n < 2^31, by bisection
Bits(n) ==
    LET Step(k, w) == IF n \div 2^k >= 2^w THEN k + w ELSE k
    IN  IF n = 0 THEN 0
        ELSE Step(Step(Step(Step(Step(0, 16), 8), 4), 2), 1) + 1

\* (hi * 2^30 + lo) * 2^z for the z that makes hi a number of 26 bits
Normalized(hi, lo) ==
    LET By(z) ==
            IF z < 30
            THEN [ hi |-> hi * 2^z + lo \div 2^(30 - z),
                   lo |-> (lo % 2^(30 - z)) * 2^z, z |-> z ]
            ELSE [hi |-> lo * 2^(z - 30), lo |-> 0, z |-> z]
    IN  By(IF hi > 0 THEN 26 - Bits(hi) ELSE 56 - Bits(lo))

\* the double nearest to n / d, for integers 0 < d < 2^14 and |n| < 2^15 * d:
\* a decimal literal or a quotient of two small integers.  The quotient is
\* developed by long division, 14 bits at a time, to 70 bits after the point
Double(n, d) ==
    LET \* the leading 29 bits v, normalised, and the 56 bits that follow
        Sum(v, t, rest) ==
            Rounded(n < 0, v.hi + t.hi, Jam(v.lo + t.lo, rest), -14 - v.z)
        Joined(v, c2, c3, c4, c5, r5) ==
            Sum(v, ShiftRightJam(c2 * 2^12 + c3 \div 4,
                                 (c3 % 4) * 2^28 + c4 * 2^14 + c5, 56 - v.z),
                r5 # 0)
        D5(v, c2, c3, c4, r4) ==
            Joined(v, c2, c3, c4, (r4 * 2^14) \div d, (r4 * 2^14) % d)
        D4(v, c2, c3, r3) ==
            D5(v, c2, c3, (r3 * 2^14) \div d, (r3 * 2^14) % d)
        D3(v, c2, r2) == D4(v, c2, (r2 * 2^14) \div d, (r2 * 2^14) % d)
        D2(v, r1) == D3(v, (r1 * 2^14) \div d, (r1 * 2^14) % d)
        D1(a, r0) ==
            D2(Normalized(0, (a \div d) * 2^14 + (r0 * 2^14) \div d),
               (r0 * 2^14) % d)
        D0(a) == D1(a, a % d)
    IN  IF n = 0 THEN Zero
        ELSE IF n < 0 THEN D0(-n) ELSE D0(n)

\* a + b
DoubleAdd(a, b) ==
    LET Of(neg, v, e) == Rounded(neg, v.hi, v.lo, e)
        \* x the operand of larger magnitude, ys the other one aligned to it
        \* with three more bits; sum and dif are the low 30 bits with carry
        Up(x, hi, lo) ==
            IF hi >= 2^26
            THEN Of(x.neg, ShiftRightJam(hi, lo, 1), x.e - 2)
            ELSE Rounded(x.neg, hi, lo, x.e - 3)
        Sum(x, ys, sum) == Up(x, x.hi + ys.hi + sum \div 2^30, sum % 2^30)
        Down(x, v) == Of(x.neg, v, x.e - 3 - v.z)
        Dif(x, ys, dif) ==
            IF x.hi = ys.hi /\ dif = 0 THEN Zero
            ELSE Down(x, Normalized(x.hi - ys.hi - (IF dif < 0 THEN 1 ELSE 0),
                                    dif % 2^30))
        Aligned(x, ys) ==
            IF a.neg = b.neg
            THEN Sum(x, ys, x.lo * 8 + ys.lo)
            ELSE Dif(x, ys, x.lo * 8 - ys.lo)
        Ordered(x, y) == Aligned(x, ShiftRightJam(y.hi, y.lo * 8, x.e - y.e))
    IN  IF a.hi = 0 THEN b
        ELSE IF b.hi = 0 THEN a
        ELSE IF \/ a.e < b.e
                \/ a.e = b.e /\ a.hi < b.hi
                \/ a.e = b.e /\ a.hi = b.hi /\ a.lo < b.lo
             THEN Ordered(b, a)
             ELSE Ordered(a, b)

\* a - b
DoubleSub(a, b) == DoubleAdd(a, [b EXCEPT !.neg = ~b.neg])

\* the mantissa in four limbs of 14 bits, the lowest first
Limbs(x) ==
    << x.lo % 2^14, x.lo \div 2^14 + (x.hi % 2) * 2^13,
       (x.hi \div 2) % 2^14, x.hi \div 2^15 >>

\* a * b: the limbs are multiplied column by column, lowest first, each
\* column c taking the carry of the one before; the columns p4..p8 hold the
\* upper bits of the product and `lost` tells whether a lower one is not zero
DoubleMul(a, b) ==
    LET \* the product has 106 bits (s = 8) or 105 (s = 7)
        Shifted(s, p4, p5, p6, p7, p8, lost) ==
            Rounded(a.neg # b.neg,
                    p6 \div 2^(s + 2) + p7 * 2^(12 - s) + p8 * 2^(26 - s),
                    Jam(p4 \div 2^s + p5 * 2^(14 - s)
                           + (p6 % 2^(s + 2)) * 2^(28 - s),
                        lost \/ p4 % 2^s # 0),
                    a.e + b.e + 42 + s)
        C7(c7, p4, p5, p6, lost) ==
            Shifted(IF c7 >= 2^21 THEN 8 ELSE 7, p4, p5, p6,
                    c7 % 2^14, c7 \div 2^14, lost)
        C6(u, v, c6, p4, p5, lost) ==
            C7(u[4] * v[4] + c6 \div 2^14, p4, p5, c6 % 2^14, lost)
        C5(u, v, c5, p4, lost) ==
            C6(u, v, u[3] * v[4] + u[4] * v[3] + c5 \div 2^14,
               p4, c5 % 2^14, lost)
        C4(u, v, c4, lost) ==
            C5(u, v, u[2] * v[4] + u[3] * v[3] + u[4] * v[2] + c4 \div 2^14,
               c4 % 2^14, lost)
        C3(u, v, c3, lost) ==
            C4(u, v, u[1] * v[4] + u[2] * v[3] + u[3] * v[2] + u[4] * v[1]
                        + c3 \div 2^14,
               lost \/ c3 % 2^14 # 0)
        C2(u, v, c2, lost) ==
            C3(u, v, u[1] * v[3] + u[2] * v[2] + u[3] * v[1] + c2 \div 2^14,
               lost \/ c2 % 2^14 # 0)
        C1(u, v, c1) ==
            C2(u, v, u[1] * v[2] + u[2] * v[1] + c1 \div 2^14, c1 % 2^14 # 0)
        Columns(u, v) == C1(u, v, u[1] * v[1])
    IN  IF a.hi = 0 \/ b.hi = 0 THEN Zero
        ELSE Columns(Limbs(a), Limbs(b))

NoLocation == [defined |-> FALSE, latitude |-> Zero, longitude |-> Zero]

\* coordinates are written in hundredths of a degree: the number literal
\* la / 100 of the response's JSON, parsed to the nearest double
GeoPoint(la, lo) ==
    [ defined |-> TRUE, latitude |-> Double(la, 100),
      longitude |-> Double(lo, 100) ]

Traj(m, s, e) == [mmsi |-> m, startLocation |-> s, endLocation |-> e]

TrajA == Traj(211002340, GeoPoint(7800, 1500), GeoPoint(7840, 1560))
TrajB == Traj(211156800, GeoPoint(7700, 1400), NoLocation)
TrajC == Traj(211002340, GeoPoint(7900, 1600), GeoPoint(7860, 1520))
TrajD == Traj(Undefined, NoLocation, GeoPoint(7750, 1450))
TrajE == Traj(Undefined, GeoPoint(7521, 1500), GeoPoint(-492, 1600))

TrajectoryInputs ==
    { <<>>, <<TrajA>>, <<TrajB>>, <<TrajA, TrajB>>, <<TrajD, TrajE>>,
      <<TrajA, TrajC>> }

VARIABLES
    isStreaming,    \* LiveProducer state (useState, line 18)
    progress,       \* LiveProducer state (line 20): 100 * num / den
    intervalRef,    \* LiveProducer ref (line 21): timer handle or Null
    iteratorsRef,   \* LiveProducer ref (line 22): [points, index] per trajectory
    unmounted,      \* refs of the LiveProducer instances replaced so far
    timers,         \* window: handles of the intervals that are active
    closures,       \* per startStream call: tickCount, maxPoints (lines 58-59),
                    \* the traceId prop and the instance of its render
    awaitingTick,   \* per session: callbacks suspended at line 85
    awaitingStop,   \* sessions whose stopStream(true) is suspended at line 103
    channels,       \* RealtimeManager.channels (realtime.ts:28): key -> channel
    transport,      \* supabase client: channel objects subscribed, not removed
    handlers,       \* channel objects carrying the hook's tick handler
    channelSeq,     \* channel objects created so far
    subscribing,    \* broadcastTick calls suspended at realtime.ts:91
    published,      \* ticks handed to channel.send, in order
    traceIdProp,    \* LiveProducer prop traceId (LiveProducer.tsx:14)
    uuidSeq,        \* crypto.randomUUID() calls so far
    toast,          \* last toast shown
    session,        \* number of sessions started so far
    pubInfo,        \* history: for each published tick, its session and sources
    iterGen,        \* history: session whose startStream built iteratorsRef
    exhausted,      \* history: sessions whose callback found allDone
    userStopped,    \* history: sessions whose interval stopStream(false) cleared
    outcomes,       \* history: per session, the terminal toasts shown for it
    liveMode,       \* Dashboard state passed to TrajectoryMap (part_003:34)
    isConnected,    \* useRealtimeTelemetry state (part_006:7)
    liveVessels,    \* useRealtimeTelemetry state (part_006:6)
    isDone,         \* useRealtimeTelemetry state (part_006:8)
    subscription,   \* channel held by the hook's unsubscribe function, or Null
    errored,        \* history: the subscription reported CHANNEL_ERROR
    raised,         \* history: a tick handler invocation threw
    lastVessels,    \* history: vessels of the last tick of this subscription
    liveMarkers,    \* TrajectoryMap liveMarkersRef: mmsi -> marker
    markerPos,      \* leaflet: position of every marker object created
    onMap,          \* leaflet: markers currently added to the map
    rafFrame,       \* animation-frame callbacks of the frame being run
    rafNext,        \* animation-frame callbacks requested for the next frame
    markerHist,     \* history: per marker, last target and supersession
    received,       \* history: ticks handled so far
    toggles,        \* history: live-mode toggles so far
    renderPending,  \* TrajectoryMap: state set by a tick awaits its render
    showMap,        \* Dashboard state (part_003:24): TrajectoryMap is rendered
    mapGen,         \* TrajectoryMap instances mounted so far
    currentTraceId, \* hook state (part_006:9): traceId of the tick handled last
    agentRequest,   \* agent-query: the request being served, with Weaviate's answer
    agentResponse,  \* agent-query: the Response returned for it
    agentStage,     \* agent-query: the await at which the handler is suspended
    mounted,        \* Dashboard: LiveProducer is rendered (part_003:671)
    sentAtUnmount,  \* history: ticks given to broadcastTick before the unmount
    producerGen,    \* LiveProducer instances mounted so far
    response,       \* Dashboard state (part_003:22): the result, or NoResponse
    responseSeq,    \* query results received so far
    subscribers,    \* per telemetry hook: the channel its unsubscribe closes over
    delivered,      \* per telemetry hook: published ticks passed to its onTick
    traceChannels,  \* channels created on the topic oc2:trace
    traceSubscribers, \* per subscribeTrace channel not yet unsubscribed:
                    \* the events passed to its onTrace
    traces,         \* trace events handed to channel.send
    cache,          \* QueryCache.cache: key -> [data, timestamp] (cache.ts:10)
    now,            \* the value Date.now() returns
    cacheResult,    \* the get call just made: its key and return value
    latest,         \* history: per key, the last set since the last clear
    elapses,        \* history: clock advances so far
    history,        \* ActivityFeed state (ActivityFeed.tsx:13)
    loadState,      \* getQueryHistory: "sent", "answered" or "done"
    snapshot,       \* rows the select of getQueryHistory returned
    events,         \* postgres_changes payloads on their way to the client
    queryHistory,   \* table query_history, rows in order of creation
    nextId,         \* table query_history: rows inserted so far
    receivedLatest  \* history: per id, the last entry the callback got

\* state and refs of the LiveProducer instances
instanceVars ==
    << isStreaming, progress, intervalRef, iteratorsRef, iterGen, unmounted >>

\* what the sessions share with the window, the manager and the dashboard
sessionVars ==
    << timers, closures, awaitingTick, awaitingStop, subscribing, published,
       traceIdProp, uuidSeq, session, pubInfo, exhausted, userStopped,
       outcomes >>

\* the producer's variables but the toast, which the hook shows too
producerRefs == << instanceVars, sessionVars >>

producerVars == << producerRefs, toast >>

consumerVars ==
    << liveMode, isConnected, liveVessels, isDone, subscription, errored,
       raised, lastVessels, liveMarkers, markerPos, onMap, rafFrame, rafNext,
       markerHist,
       received, toggles, renderPending, showMap, mapGen,
       currentTraceId >>

clientVars == << transport, handlers, channelSeq >>

agentVars == << agentRequest, agentResponse, agentStage >>

mountVars == << mounted, sentAtUnmount, producerGen, response, responseSeq >>

\* state that the producer's and the consumer's handlers leave alone
sharedVars ==
    << subscribers, delivered, traceChannels, traceSubscribers, traces >>

cacheVars == << cache, now, cacheResult, latest, elapses >>

feedVars ==
    << history, loadState, snapshot, events, queryHistory, nextId,
       receivedLatest >>

otherVars == << agentVars, sharedVars, cacheVars, feedVars >>

serviceVars == << mountVars, otherVars >>

vars == << producerVars, consumerVars, channels, clientVars, serviceVars >>

(***************************************************************************)
(* startStream: iterator construction (LiveProducer.tsx:35-56)             *)
(***************************************************************************)
\* variant: the test of line 40 without its endLocation operand
HasStartLocation(traj) == traj.startLocation.defined

\* traj.startLocation && traj.endLocation
HasEndpoints(traj) ==
    traj.startLocation.defined /\ traj.endLocation.defined

\* traj.mmsi || 0
MmsiOrZero(m) == IF m = Undefined \/ m = 0 THEN 0 ELSE m

\* start + (end - start) * (i / steps), each operation rounded to a double
Lerp(a, b, i, n) == DoubleAdd(a, DoubleMul(DoubleSub(b, a), Double(i, n)))

PointAt(traj, i) ==
    [ lat  |-> Lerp(traj.startLocation.latitude,
                    traj.endLocation.latitude, i, steps),
      lon  |-> Lerp(traj.startLocation.longitude,
                    traj.endLocation.longitude, i, steps),
      mmsi |-> MmsiOrZero(traj.mmsi) ]

\* for (let i = 0; i <= steps; i++) points.push(...)
Points(traj) ==
    IF HasEndpoints(traj)
    THEN [ j \in 1..(steps + 1) |-> PointAt(traj, j - 1) ]
    ELSE << >>

BuildIterators(trajs) ==
    [ k \in 1..Len(trajs) |-> [points |-> Points(trajs[k]), index |-> 0] ]

RECURSIVE MaxLen(_, _)
MaxLen(its, k) ==
    IF k = 0 THEN 0
    ELSE LET rest == MaxLen(its, k - 1)
             here == Len(its[k].points)
         IN  IF here > rest THEN here ELSE rest

\* Math.max(...iterators.map(it => it.points.length)), list non-empty
MaxPoints(its) == MaxLen(its, Len(its))

(***************************************************************************)
(* interval callback: per-tick index advance (LiveProducer.tsx:66-78)      *)
(***************************************************************************)
Live(its) == { k \in 1..Len(its) : its[k].index < Len(its[k].points) }

RECURSIVE Collect(_, _)
\* the observations pushed by the for-of loop over iterators 1..k
Collect(its, k) ==
    IF k = 0 THEN << >>
    ELSE IF k \in Live(its)
         THEN Append(Collect(its, k - 1),
                     [ lat  |-> its[k].points[its[k].index + 1].lat,
                       lon  |-> its[k].points[its[k].index + 1].lon,
                       mmsi |-> its[k].points[its[k].index + 1].mmsi,
                       idx  |-> its[k].index ])
         ELSE Collect(its, k - 1)

TickVessels(its) == Collect(its, Len(its))

RECURSIVE CollectSrc(_, _)
CollectSrc(its, k) ==
    IF k = 0 THEN << >>
    ELSE IF k \in Live(its)
         THEN Append(CollectSrc(its, k - 1), k)
         ELSE CollectSrc(its, k - 1)

\* variant: a callback without the allDone test of line 80
NeverAllDone(its) == FALSE

\* allDone after the loop of lines 67-78: no iterator had a point left
AllDone(its) == Live(its) = {}

Advance(its) ==
    [ k \in 1..Len(its) |->
        IF k \in Live(its)
        THEN [its[k] EXCEPT !.index = @ + 1]
        ELSE its[k] ]

(***************************************************************************)
(* RealtimeManager.broadcastTick (realtime.ts:84-100)                      *)
(***************************************************************************)
\* this.channels.set("telemetry", channel) of the lazy registration
\* (realtime.ts:92)
BroadcastChannels(chs, ch) == ("telemetry" :> ch) @@ chs

\* this.channels.set("telemetry", channel) (realtime.ts:49): the entry of
\* an earlier channel is replaced
SubscribedChannels(chs, ch) == ("telemetry" :> ch) @@ chs

\* this.channels.delete("telemetry") (realtime.ts:53)
UnsubscribedChannels(chs) == [ k \in DOMAIN chs \ {"telemetry"} |-> chs[k] ]

\* supabase.channel("oc2:telemetry", ...) (realtime.ts:34, 86): a new object
NewChannel(seq) == seq + 1

\* channel.subscribe(...) (realtime.ts:42, 91)
JoinedTransport(tr, ch) == tr \cup {ch}

\* variant: an unsubscribe function without the removeChannel call
ChannelKept(tr, ch) == tr

\* supabase.removeChannel(channel) (realtime.ts:52)
RemovedChannel(tr, ch) == tr \ {ch}

\* status === "CHANNEL_ERROR" (realtime.ts:44)
IsChannelError(status) == status = "CHANNEL_ERROR"

\* the statuses given to the subscribe callback (realtime.ts:42) that report
\* a failure of the connection: the join was refused or the connection
\* broke, the join got no answer, the channel was closed
ConnectionFailures == {"CHANNEL_ERROR", "TIMED_OUT", "CLOSED"}

ObservationTick(vs) == [vessels |-> vs, done |-> FALSE]

DoneTick == [vessels |-> << >>, done |-> TRUE]

\* the traceId prop when it is undefined or the empty string
NoTraceId == [kind |-> "none", n |-> 0]

\* a traceId prop as the dashboard passes it (part_003:676)
PropTraceId == [kind |-> "prop", n |-> 1]

\* the value of the n-th crypto.randomUUID() call; no two calls agree
RandomUUID(n) == [kind |-> "uuid", n |-> n]

\* traceId || crypto.randomUUID() (LiveProducer.tsx:86, 104)
TraceIdOr(prop, n) == IF prop = NoTraceId THEN RandomUUID(n) ELSE prop

\* crypto.randomUUID() is evaluated only when the prop is falsy
UuidCalls(prop, n) == IF prop = NoTraceId THEN n + 1 ELSE n

\* the tick object passed to broadcastTick (LiveProducer.tsx:85-89, 103-108)
WithTraceId(tick, id) ==
    [vessels |-> tick.vessels, done |-> tick.done, traceId |-> id]

\* channel.send(...) (realtime.ts:95-99): the transport receives the tick
HandOff(sent, tick) == Append(sent, tick)

\* this.channels.has("telemetry") (realtime.ts:90)
HasTelemetry(chs) == "telemetry" \in DOMAIN chs

(***************************************************************************)
(* stopStream: timer cancellation (LiveProducer.tsx:97-100)                *)
(***************************************************************************)
\* variant: stopStream that nulls the ref without calling clearInterval
TimersKept(ts, ref) == ts

\* if (intervalRef.current) clearInterval(intervalRef.current)
ClearedTimers(ts, ref) == IF ref # Null THEN ts \ {ref} ELSE ts

ZeroProgress == [num |-> 0, den |-> 1]

(***************************************************************************)
(* Producer operations                                                     *)
(***************************************************************************)
\* variant: an await of the server's answer to the subscription, during
\* which timer callbacks and click handlers run
AwaitsNetwork == TRUE

\* a macrotask starts only when no microtask is pending: channel.subscribe()
\* returns the channel, not a promise, so the continuation of
\* `await channel.subscribe()` (realtime.ts:91) is a microtask and runs
\* before any timer callback or click handler
MicrotasksDrained == subscribing = << >>

\* the callbacks of session s close over the refs of the LiveProducer
\* instance that is the latest one mounted
OfMounted(s) == closures[s].instance = producerGen

ProducerInit ==
    /\ isStreaming = FALSE
    /\ progress = ZeroProgress
    /\ intervalRef = Null
    /\ iteratorsRef = << >>
    /\ unmounted = << >>
    /\ timers = {}
    /\ closures = << >>
    /\ awaitingTick = << >>
    /\ awaitingStop = << >>
    /\ channels = << >>
    /\ transport = {}
    /\ handlers = {}
    /\ channelSeq = 0
    /\ subscribing = << >>
    /\ published = << >>
    /\ traceIdProp \in {NoTraceId, PropTraceId}
    /\ uuidSeq = 0
    /\ toast = "none"
    /\ session = 0
    /\ pubInfo = << >>
    /\ iterGen = 0
    /\ exhausted = {}
    /\ userStopped = {}
    /\ outcomes = << >>

\* startStream (LiveProducer.tsx:24-94), invoked from the Start button, which
\* is rendered only while isStreaming is false (lines 169-177)
StartStream(trajs) ==
    /\ mounted
    /\ ~isStreaming
    /\ MicrotasksDrained
    /\ IF Len(trajs) = 0
       THEN /\ toast' = "error"
            /\ UNCHANGED << isStreaming, progress, intervalRef, iteratorsRef,
                            timers, closures, awaitingTick, awaitingStop,
                            session, iterGen, outcomes >>
       ELSE /\ session' = session + 1
            /\ isStreaming' = TRUE
            /\ progress' = ZeroProgress
            /\ iteratorsRef' = BuildIterators(trajs)
            /\ iterGen' = session + 1
            /\ closures' = Append(closures,
                              [ tickCount    |-> 0,
                                maxPoints    |-> MaxPoints(BuildIterators(trajs)),
                                trajectories |-> trajs,
                                traceId      |-> traceIdProp,
                                instance     |-> producerGen ])
            /\ awaitingTick' = Append(awaitingTick, 0)
            /\ awaitingStop' = Append(awaitingStop, 0)
            /\ outcomes' = Append(outcomes, {})
            /\ toast' = "started"
            /\ intervalRef' = session + 1
            /\ timers' = timers \cup {session + 1}
    /\ UNCHANGED << channels, subscribing, published, traceIdProp, uuidSeq,
                    pubInfo, exhausted, userStopped, unmounted >>
    /\ UNCHANGED << consumerVars, clientVars, serviceVars >>

\* broadcastTick up to its first await (realtime.ts:84-95): with the channel
\* registered the tick goes to channel.send at once; otherwise a channel is
\* created and subscribed and the call is suspended at line 91
Broadcast(tick, info) ==
    IF HasTelemetry(channels)
    THEN /\ published' = HandOff(published, tick)
         /\ pubInfo' = HandOff(pubInfo, info)
         /\ UNCHANGED << subscribing, clientVars >>
    ELSE /\ subscribing' = Append(subscribing,
                               [ key     |-> "telemetry",
                                 tick    |-> tick,
                                 info    |-> info,
                                 channel |-> NewChannel(channelSeq) ])
         /\ channelSeq' = NewChannel(channelSeq)
         /\ transport' = JoinedTransport(transport, NewChannel(channelSeq))
         /\ UNCHANGED << published, pubInfo, handlers >>

\* the interval callback up to its first await (LiveProducer.tsx:65-89);
\* the allDone branch runs stopStream(true) up to its await (lines 96-108).
\* The callback reads the refs of the instance that started its session and
\* the traceId prop of the render that started it.
TimerFire(t) ==
    /\ t \in timers
    /\ MicrotasksDrained
    /\ Len(published) < MaxTicks
    /\ LET inst == closures[t].instance
           its  == IF OfMounted(t) THEN iteratorsRef
                   ELSE unmounted[inst].iteratorsRef
           ref  == IF OfMounted(t) THEN intervalRef
                   ELSE unmounted[inst].intervalRef
           gen  == IF OfMounted(t) THEN iterGen ELSE unmounted[inst].iterGen
           id   == TraceIdOr(closures[t].traceId, uuidSeq + 1)
           stop == AllDone(its)
       IN
       /\ IF OfMounted(t)
          THEN /\ iteratorsRef' = Advance(its)
               /\ intervalRef' = IF stop THEN Null ELSE intervalRef
               /\ UNCHANGED unmounted
          ELSE /\ unmounted' =
                      [ unmounted EXCEPT
                          ![inst].iteratorsRef = Advance(its),
                          ![inst].intervalRef = IF stop THEN Null ELSE @ ]
               /\ UNCHANGED << iteratorsRef, intervalRef >>
       /\ uuidSeq' = UuidCalls(closures[t].traceId, uuidSeq)
       /\ IF stop
          THEN /\ timers' = ClearedTimers(timers, ref)
               /\ Broadcast(WithTraceId(DoneTick, id),
                            [ session |-> t, gen |-> gen, src |-> << >>,
                              seq |-> Len(published) + Len(subscribing) + 1,
                              awaited |-> ~HasTelemetry(channels) ])
               /\ awaitingStop' = [awaitingStop EXCEPT ![t] = @ + 1]
               /\ exhausted' = exhausted \cup {t}
               /\ UNCHANGED awaitingTick
          ELSE /\ awaitingTick[t] < MaxInflight
               /\ Broadcast(WithTraceId(ObservationTick(TickVessels(its)), id),
                            [ session |-> t, gen |-> gen,
                              src |-> CollectSrc(its, Len(its)),
                              seq |-> Len(published) + Len(subscribing) + 1,
                              awaited |-> ~HasTelemetry(channels) ])
               /\ awaitingTick' = [awaitingTick EXCEPT ![t] = @ + 1]
               /\ UNCHANGED << timers, awaitingStop, exhausted >>
    /\ UNCHANGED << isStreaming, progress, closures, channels, traceIdProp,
                    toast, session, iterGen, userStopped, outcomes >>
    /\ UNCHANGED << consumerVars, serviceVars >>

\* broadcastTick after `await channel.subscribe()` (realtime.ts:92-99)
BroadcastResume ==
    /\ subscribing # << >>
    /\ Head(subscribing).key = "telemetry"
    /\ channels' = BroadcastChannels(channels, Head(subscribing).channel)
    /\ published' = HandOff(published, Head(subscribing).tick)
    /\ pubInfo' = HandOff(pubInfo, Head(subscribing).info)
    /\ subscribing' = Tail(subscribing)
    /\ UNCHANGED << isStreaming, progress, intervalRef, iteratorsRef, timers,
                    closures, awaitingTick, awaitingStop, traceIdProp, uuidSeq,
                    toast, session, iterGen, exhausted, userStopped,
                    outcomes, unmounted >>
    /\ UNCHANGED << consumerVars, clientVars, serviceVars >>

\* the interval callback after await broadcastTick (LiveProducer.tsx:91-92)
TickResume(s) ==
    /\ s \in 1..Len(awaitingTick)
    /\ awaitingTick[s] > 0
    /\ MicrotasksDrained
    /\ awaitingTick' = [awaitingTick EXCEPT ![s] = @ - 1]
    /\ closures' = [closures EXCEPT ![s].tickCount = @ + 1]
    \* a state setter of an unmounted instance changes nothing
    /\ progress' = IF OfMounted(s) /\ mounted
                   THEN [ num |-> closures[s].tickCount + 1,
                          den |-> closures[s].maxPoints ]
                   ELSE progress
    /\ UNCHANGED << isStreaming, intervalRef, iteratorsRef, timers,
                    awaitingStop, channels, subscribing, published,
                    traceIdProp, uuidSeq, toast, session, pubInfo, iterGen,
                    exhausted, userStopped, outcomes, unmounted >>
    /\ UNCHANGED << consumerVars, clientVars, serviceVars >>

\* stopStream(true) after await broadcastTick (LiveProducer.tsx:110-116)
StopResume(s) ==
    /\ s \in 1..Len(awaitingStop)
    /\ awaitingStop[s] > 0
    /\ MicrotasksDrained
    /\ awaitingStop' = [awaitingStop EXCEPT ![s] = @ - 1]
    /\ toast' = "complete"
    /\ outcomes' = [outcomes EXCEPT ![s] = @ \cup {"complete"}]
    \* a state setter of an unmounted instance changes nothing
    /\ isStreaming' = IF OfMounted(s) /\ mounted THEN FALSE ELSE isStreaming
    /\ progress' = IF OfMounted(s) /\ mounted THEN ZeroProgress ELSE progress
    /\ UNCHANGED << intervalRef, iteratorsRef, timers, closures, awaitingTick,
                    channels, subscribing, published, traceIdProp, uuidSeq,
                    session, pubInfo, iterGen, exhausted, userStopped,
                    unmounted >>
    /\ UNCHANGED << consumerVars, clientVars, serviceVars >>

\* stopStream(false) (LiveProducer.tsx:96-117), invoked from the Stop button,
\* which is rendered only while isStreaming is true (lines 178-186)
StopClick ==
    /\ mounted
    /\ isStreaming
    /\ MicrotasksDrained
    /\ timers' = ClearedTimers(timers, intervalRef)
    /\ intervalRef' = Null
    /\ toast' = "stopped"
    /\ outcomes' = [outcomes EXCEPT ![session] = @ \cup {"stopped"}]
    /\ isStreaming' = FALSE
    /\ progress' = ZeroProgress
    /\ userStopped' = IF intervalRef # Null
                      THEN userStopped \cup {intervalRef}
                      ELSE userStopped
    /\ UNCHANGED << iteratorsRef, closures, awaitingTick, awaitingStop,
                    channels, subscribing, published, traceIdProp, uuidSeq,
                    session, pubInfo, iterGen, exhausted, unmounted >>
    /\ UNCHANGED << consumerVars, clientVars, serviceVars >>

\* a click on Start Stream, with the trajectories of the current render,
\* which are those of response.data that pass the filters (part_003:131-170,
\* 674); the button is disabled while trajectories.length === 0
\* (LiveProducer.tsx:172) and a click on it calls nothing
StartSession ==
    \E trajs \in TrajectoryInputs :
        /\ session < MaxSessions
        /\ Len(trajs) # 0
        /\ Len(trajs) <= response.length
        /\ StartStream(trajs)

\* the same click where one more restart is explored, on three of the
\* trajectory lists
RestartSession ==
    \E trajs \in { <<TrajA>>, <<TrajB>>, <<TrajA, TrajB>> } :
        /\ session < MaxRestarts
        /\ Len(trajs) <= response.length
        /\ StartStream(trajs)

\* the same click where mounts and unmounts are explored, on three of the
\* trajectory lists
MountedSession ==
    \E trajs \in { <<TrajA>>, <<TrajB>>, <<TrajA, TrajB>> } :
        /\ session < MaxSessions
        /\ Len(trajs) <= response.length
        /\ StartStream(trajs)

MaxProducerMounts == 2

\* the n-th query result (part_003:54), with the length of its data array
Response(n, len) == [seq |-> n, length |-> len]

\* useState<QueryResponse | null>(null) (part_003:22)
NoResponse == Response(Null, 0)

\* response && response.data.length > 0 (part_003:438): the map card, with
\* the buttons Go Live / Stop Live and Hide / Show, is rendered
MapCard(r) == r # NoResponse /\ r.length > 0

\* the Dashboard with the result of its first query (part_003:21-34, 54), a
\* result with trajectories; live mode is off, so no LiveProducer is
\* rendered (part_003:671)
MountInit ==
    /\ mounted = FALSE
    /\ sentAtUnmount = 0
    /\ producerGen = 0
    /\ response = Response(1, 2)
    /\ responseSeq = 1

\* Dashboard stops rendering LiveProducer (part_003:671-678: liveMode or
\* response became falsy). The component registers no effect, so nothing of
\* it runs at unmount: its interval, its refs and the callbacks suspended in
\* broadcastTick stay as they are; its buttons are gone.
Unmount ==
    /\ mounted' = FALSE
    /\ sentAtUnmount' = Len(published) + Len(subscribing)
    /\ UNCHANGED << producerGen, instanceVars >>

\* Dashboard renders LiveProducer (part_003:671-678): a new instance with
\* state and refs of its own (LiveProducer.tsx:18-22); the intervals of the
\* instances before keep the refs they closed over
Mount ==
    /\ mounted' = TRUE
    /\ producerGen' = producerGen + 1
    /\ unmounted' = IF producerGen = 0 THEN unmounted
                    ELSE Append(unmounted, [ intervalRef  |-> intervalRef,
                                             iteratorsRef |-> iteratorsRef,
                                             iterGen      |-> iterGen ])
    /\ isStreaming' = FALSE
    /\ progress' = ZeroProgress
    /\ intervalRef' = Null
    /\ iteratorsRef' = << >>
    /\ iterGen' = 0
    /\ UNCHANGED sentAtUnmount

ProducerNext ==
    \/ StartSession
    \/ \E t \in 1..MaxRestarts : TimerFire(t)
    \/ BroadcastResume
    \/ \E s \in 1..MaxRestarts : TickResume(s)
    \/ \E s \in 1..MaxRestarts : StopResume(s)
    \/ StopClick

ProducerNextRestarts ==
    \/ RestartSession
    \/ \E t \in 1..MaxRestarts : TimerFire(t)
    \/ BroadcastResume
    \/ \E s \in 1..MaxRestarts : TickResume(s)
    \/ \E s \in 1..MaxRestarts : StopResume(s)
    \/ StopClick


(***************************************************************************)
(* Consumer: useRealtimeTelemetry (part_006:5-56) and the live effects of  *)
(* TrajectoryMap (Dashboard.tsx:587-706)                                   *)
(***************************************************************************)
Obs(m, la, lo, i) ==
    [mmsi |-> m, lat |-> Double(la, 100), lon |-> Double(lo, 100), idx |-> i]

\* ticks delivered to a subscriber
TickInputs ==
    { WithTraceId(tick, PropTraceId) : tick \in
        { ObservationTick(<< Obs(211002340, 7800, 1500, 0) >>),
          ObservationTick(<< Obs(211002340, 7900, 1700, 1) >>),
          ObservationTick(<< Obs(211002340, 8000, 1600, 2),
                             Obs(211156800, 7700, 1400, 0) >>),
          ObservationTick(<< Obs(0, 7600, 1300, 0), Obs(0, 7900, 1600, 0) >>),
          DoneTick } }

\* a tick whose payload has no vessels array
MalformedTick == [done |-> FALSE]

\* tick.vessels is an array
HasVessels(tick) == "vessels" \in DOMAIN tick

\* ticks delivered to a subscriber whose connection is observed
SubscriptionTicks ==
    { WithTraceId(ObservationTick(<< Obs(211002340, 7800, 1500, 0) >>),
                  PropTraceId),
      WithTraceId(DoneTick, PropTraceId),
      MalformedTick }

\* variant: a handler that merges the tick into the list it already has
MergedVessels(prev, tick) == prev \o tick.vessels

\* setLiveVessels(tick.vessels) (part_006:22)
ReceivedVessels(prev, tick) == tick.vessels

ConsumerInit ==
    /\ liveMode = FALSE
    /\ isConnected = FALSE
    /\ liveVessels = << >>
    /\ isDone = FALSE
    /\ subscription = Null
    /\ errored = FALSE
    /\ raised = FALSE
    /\ lastVessels = << >>
    /\ liveMarkers = << >>
    /\ markerPos = << >>
    /\ onMap = {}
    /\ rafFrame = << >>
    /\ rafNext = << >>
    /\ markerHist = << >>
    /\ received = 0
    /\ toggles = 0
    /\ renderPending = FALSE
    /\ showMap = TRUE
    /\ mapGen = 1
    /\ currentTraceId = NoTraceId

\* variant: the coordinate pair of line 647 in [lon, lat] order
NewMarkerPosSwapped(v) == [lat |-> v.lon, lng |-> v.lat]

\* L.circleMarker([vessel.lat, vessel.lon], ...) (Dashboard.tsx:647)
NewMarkerPos(v) == [lat |-> v.lat, lng |-> v.lon]

\* L.latLng(vessel.lat, vessel.lon) (Dashboard.tsx:669)
TargetPos(v) == [lat |-> v.lat, lng |-> v.lon]

\* currentPos + (targetPos - currentPos) * (step / steps) (lines 676-677)
InterpolatedPos(cur, tgt, step) ==
    [ lat |-> Lerp(cur.lat, tgt.lat, step, stepsInterpolate),
      lng |-> Lerp(cur.lng, tgt.lng, step, stepsInterpolate) ]

\* the closure interpolate of one tick for one marker, as a frame callback
InterpolateCallback(k, cur, tgt, step) ==
    [kind |-> "interpolate", marker |-> k, currentPos |-> cur,
     targetPos |-> tgt, step |-> step]

\* the callback of line 642, closed over the liveVessels of its render and
\* over the refs of the TrajectoryMap instance that rendered
EffectCallback(vs, inst) == [kind |-> "effect", vessels |-> vs, map |-> inst]

\* interpolation loops of marker k that still have a setLatLng to perform
ActiveLoops(queue, k) ==
    { i \in 1..Len(queue) :
        /\ queue[i].kind = "interpolate"
        /\ queue[i].marker = k
        /\ queue[i].step < stepsInterpolate }

\* one iteration of liveVessels.forEach (Dashboard.tsx:643-695); st.later
\* holds the callbacks of this frame that have not run yet
ProcessVessel(st, v) ==
    IF v.mmsi \notin DOMAIN st.liveMarkers
    THEN [ st EXCEPT
             !.markerPos = Append(@, NewMarkerPos(v)),
             !.onMap = @ \cup {Len(st.markerPos) + 1},
             !.liveMarkers = (v.mmsi :> (Len(st.markerPos) + 1)) @@ @,
             !.markerHist = Append(@, [ target     |-> TargetPos(v),
                                        superseded |-> FALSE ]) ]
    ELSE LET k   == st.liveMarkers[v.mmsi]
             cur == st.markerPos[k]
         IN  [ st EXCEPT
                 !.markerPos[k] = InterpolatedPos(cur, TargetPos(v), 0),
                 !.rafNext = Append(@, InterpolateCallback(k, cur,
                                                           TargetPos(v), 1)),
                 !.markerHist[k] =
                     [ target     |-> TargetPos(v),
                       superseded |->
                           ActiveLoops(st.later \o st.rafNext, k) # {} ] ]

RECURSIVE ProcessVessels(_, _, _)
ProcessVessels(st, vs, n) ==
    IF n = 0 THEN st
    ELSE ProcessVessel(ProcessVessels(st, vs, n - 1), vs[n])

\* one invocation of interpolate from the frame scheduler (lines 674-682)
RunInterpolate(st, cb) ==
    IF cb.step < stepsInterpolate
    THEN [ st EXCEPT
             !.markerPos[cb.marker] =
                 InterpolatedPos(cb.currentPos, cb.targetPos, cb.step),
             !.rafNext = Append(@, InterpolateCallback(cb.marker,
                                      cb.currentPos, cb.targetPos,
                                      cb.step + 1)) ]
    ELSE st

\* a callback of an unmounted instance finds its liveMarkersRef cleared and
\* its mapInstanceRef null: addTo(null) throws at the first vessel (line 654)
RunOne(st, cb) ==
    IF cb.kind = "effect"
    THEN IF cb.map = st.mounted
         THEN ProcessVessels(st, cb.vessels, Len(cb.vessels))
         ELSE st
    ELSE RunInterpolate(st, cb)

\* the hook's effect with enabled true (part_006:11-40)
HookSubscribes ==
    /\ isConnected' = TRUE
    /\ toast' = "connected"
    /\ channelSeq' = NewChannel(channelSeq)
    /\ handlers' = handlers \cup {NewChannel(channelSeq)}
    /\ transport' = JoinedTransport(transport, NewChannel(channelSeq))
    /\ channels' = SubscribedChannels(channels, NewChannel(channelSeq))
    /\ subscription' = NewChannel(channelSeq)

\* the cleanup of the hook's effect (part_006:42-47)
HookCleanup ==
    /\ isConnected' = FALSE
    /\ transport' = RemovedChannel(transport, subscription)
    /\ channels' = UnsubscribedChannels(channels)
    /\ subscription' = Null
    /\ liveVessels' = << >>
    /\ isDone' = FALSE

\* TrajectoryMap is unmounted: the cleanups of the hook (part_006:42-47,
\* registered while enabled) and of the map (Dashboard.tsx:626-635) run;
\* frame callbacks already requested stay
MapUnmounts ==
    /\ IF liveMode
       THEN HookCleanup
       ELSE UNCHANGED << isConnected, transport, channels, subscription,
                         liveVessels, isDone >>
    /\ onMap' = {}
    /\ liveMarkers' = << >>
    /\ lastVessels' = << >>
    /\ errored' = FALSE
    /\ renderPending' = FALSE
    /\ currentTraceId' = NoTraceId

\* a new TrajectoryMap is mounted, with refs and state of its own
MapMounts ==
    /\ mapGen' = mapGen + 1
    /\ IF liveMode
       THEN HookSubscribes
       ELSE UNCHANGED << isConnected, toast, channels, clientVars,
                         subscription >>

\* Go Live (part_003:456-464, a button of the map card, which needs a
\* response with trajectories, line 438): setLiveMode(true). In the commit that follows the
\* hook of the rendered TrajectoryMap subscribes (part_006:11-40), the
\* liveVessels effect returns at once, liveVessels being empty, and
\* LiveProducer is mounted (part_003:671)
ToggleOn ==
    /\ ~liveMode
    /\ MapCard(response)
    /\ MicrotasksDrained
    /\ rafFrame = << >>
    /\ toggles < MaxToggles
    /\ producerGen < MaxProducerMounts
    /\ toggles' = toggles + 1
    /\ liveMode' = TRUE
    /\ IF showMap
       THEN HookSubscribes
       ELSE UNCHANGED << isConnected, toast, channels, clientVars,
                         subscription >>
    /\ Mount
    /\ errored' = FALSE
    /\ UNCHANGED << liveVessels, isDone, raised, lastVessels, liveMarkers,
                    markerPos, onMap,
                    rafFrame, rafNext, markerHist, received, renderPending,
                    showMap, mapGen,
                    currentTraceId >>
    /\ UNCHANGED << sessionVars, response, responseSeq, otherVars >>

\* Stop Live (part_003:456-464): setLiveMode(false). In the commit that
\* follows LiveProducer is unmounted (part_003:671), the liveVessels effect
\* of the rendered TrajectoryMap returns at once, and the hook cleanup
\* (part_006:42-47) and the clear effect (Dashboard.tsx:700-706) run
ToggleOff ==
    /\ liveMode
    /\ MapCard(response)
    /\ MicrotasksDrained
    /\ rafFrame = << >>
    /\ toggles < MaxToggles
    /\ toggles' = toggles + 1
    /\ liveMode' = FALSE
    /\ IF showMap
       THEN /\ HookCleanup
            /\ onMap' = onMap \ { liveMarkers[m] : m \in DOMAIN liveMarkers }
            /\ liveMarkers' = << >>
       ELSE UNCHANGED << isConnected, transport, channels, subscription,
                         liveVessels, isDone, onMap, liveMarkers >>
    /\ Unmount
    /\ errored' = FALSE
    /\ lastVessels' = << >>
    /\ renderPending' = FALSE
    /\ UNCHANGED << raised, markerPos, rafFrame, rafNext, markerHist,
                    received, handlers, channelSeq, showMap, mapGen,
                    currentTraceId >>
    /\ UNCHANGED << sessionVars, toast, response, responseSeq, otherVars >>

\* the onTick handler (part_006:20-32); the state it sets is rendered later
OnTick(tick) ==
    /\ transport \cap handlers # {}
    /\ rafFrame = << >>
    /\ received < MaxReceived
    /\ received' = received + 1
    /\ IF HasVessels(tick)
       THEN /\ liveVessels' = ReceivedVessels(liveVessels, tick)
            /\ lastVessels' = tick.vessels
            /\ isDone' = (isDone \/ tick.done)
            /\ currentTraceId' = tick.traceId
            /\ toast' = IF tick.done THEN "finished" ELSE toast
            /\ renderPending' = TRUE
            /\ UNCHANGED raised
       ELSE \* tick.vessels.length (part_006:21) throws a TypeError
            /\ raised' = TRUE
            /\ UNCHANGED << liveVessels, isDone, lastVessels, toast,
                            renderPending, currentTraceId >>
    /\ UNCHANGED << liveMode, isConnected, subscription, errored, liveMarkers,
                    markerPos, onMap, rafFrame, rafNext, markerHist, toggles,
                    showMap, mapGen >>
    /\ UNCHANGED << producerRefs, channels, clientVars, serviceVars >>

\* React renders TrajectoryMap with the state set since the last render and
\* runs the liveVessels effect of that render (Dashboard.tsx:639-642)
Render ==
    /\ renderPending
    /\ rafFrame = << >>
    /\ renderPending' = FALSE
    /\ rafNext' = IF ~liveMode \/ Len(liveVessels) = 0
                  THEN rafNext
                  ELSE Append(rafNext, EffectCallback(liveVessels, mapGen))
    /\ UNCHANGED << liveMode, isConnected, liveVessels, isDone, subscription,
                    errored, raised, lastVessels, liveMarkers, markerPos,
                    onMap, rafFrame, markerHist, received, toggles, showMap,
                    mapGen,
                    currentTraceId >>
    /\ UNCHANGED << producerVars, channels, clientVars, serviceVars >>

\* Hide (part_003:484-491, a button of the map card): setShowMap(false);
\* TrajectoryMap is unmounted (part_003:498)
HideMap ==
    /\ showMap
    /\ MapCard(response)
    /\ MicrotasksDrained
    /\ rafFrame = << >>
    /\ mapGen < MaxMapMounts
    /\ showMap' = FALSE
    /\ MapUnmounts
    /\ UNCHANGED << liveMode, raised, markerPos, rafFrame, rafNext,
                    markerHist, received, toggles, handlers, channelSeq,
                    mapGen >>
    /\ UNCHANGED << producerVars, serviceVars >>

\* Show (part_003:484-491): setShowMap(true); a TrajectoryMap is mounted
ShowMap ==
    /\ ~showMap
    /\ MapCard(response)
    /\ MicrotasksDrained
    /\ rafFrame = << >>
    /\ showMap' = TRUE
    /\ MapMounts
    /\ UNCHANGED << liveMode, liveVessels, isDone, errored, raised,
                    lastVessels, liveMarkers, markerPos, onMap, rafFrame,
                    rafNext, markerHist, received, toggles, renderPending,
                    currentTraceId >>
    /\ UNCHANGED << producerRefs, serviceVars >>

\* setResponse(null): handleQuery before it awaits the agent (part_003:44)
\* and handleApprove at its end (part_003:110). The map card with its
\* TrajectoryMap, if they were rendered (part_003:438, 498), and
\* LiveProducer (part_003:671) are unmounted; showMap and liveMode stay as
\* they are
ClearResponse ==
    /\ response # NoResponse
    /\ MicrotasksDrained
    /\ rafFrame = << >>
    /\ response' = NoResponse
    /\ IF showMap /\ MapCard(response)
       THEN MapUnmounts
       ELSE UNCHANGED << isConnected, transport, channels, subscription,
                         liveVessels, isDone, onMap, liveMarkers, lastVessels,
                         errored, renderPending, currentTraceId >>
    /\ IF liveMode
       THEN Unmount
       ELSE UNCHANGED << mounted, sentAtUnmount, producerGen, instanceVars >>
    /\ UNCHANGED << liveMode, raised, markerPos, rafFrame, rafNext,
                    markerHist, received, toggles, handlers, channelSeq,
                    showMap, mapGen >>
    /\ UNCHANGED << sessionVars, toast, responseSeq, otherVars >>

\* setResponse(result) (part_003:54), the result having len trajectories
\* and a traceId of its own or none. With trajectories the map card is
\* rendered again (part_003:438), with a new TrajectoryMap if showMap is
\* set (line 498); without them there is no map card. A new LiveProducer is
\* rendered if liveMode is set, whatever the data (part_003:671)
QueryResult(len) ==
    /\ response = NoResponse
    /\ MicrotasksDrained
    /\ rafFrame = << >>
    /\ responseSeq < MaxResponses
    /\ (showMap /\ len > 0) => mapGen < MaxMapMounts
    /\ liveMode => producerGen < MaxProducerMounts
    /\ responseSeq' = responseSeq + 1
    /\ response' = Response(responseSeq + 1, len)
    /\ traceIdProp' \in
          {NoTraceId, [PropTraceId EXCEPT !.n = responseSeq + 1]}
    /\ IF showMap /\ len > 0
       THEN MapMounts
       ELSE UNCHANGED << mapGen, isConnected, toast, channels, clientVars,
                         subscription >>
    /\ IF liveMode
       THEN Mount
       ELSE UNCHANGED << mounted, sentAtUnmount, producerGen, instanceVars >>
    /\ UNCHANGED << liveMode, liveVessels, isDone, errored, raised,
                    lastVessels, liveMarkers, markerPos, onMap, rafFrame,
                    rafNext, markerHist, received, toggles, renderPending,
                    showMap, currentTraceId >>
    /\ UNCHANGED << timers, closures, awaitingTick, awaitingStop, subscribing,
                    published, uuidSeq, session, pubInfo, exhausted,
                    userStopped, outcomes, otherVars >>

\* the status callback of subscribeTelemetry (realtime.ts:42-47) and the
\* onError handler of the hook (part_006:33-39)
ChannelStatus(status) ==
    /\ subscription \in transport
    /\ rafFrame = << >>
    /\ isConnected' = IF IsChannelError(status) THEN FALSE ELSE isConnected
    /\ toast' = IF IsChannelError(status) THEN "disconnected" ELSE toast
    /\ errored' = (errored \/ status \in ConnectionFailures)
    /\ UNCHANGED << liveMode, liveVessels, isDone, subscription, raised,
                    lastVessels,
                    liveMarkers, markerPos, onMap, rafFrame, rafNext,
                    markerHist, received, toggles, renderPending, showMap,
                    mapGen,
                    currentTraceId >>
    /\ UNCHANGED << producerRefs, channels, clientVars, serviceVars >>

\* the browser starts a frame: the callbacks requested so far will run
BeginFrame ==
    /\ rafFrame = << >>
    /\ rafNext # << >>
    /\ rafFrame' = rafNext
    /\ rafNext' = << >>
    /\ UNCHANGED << liveMode, isConnected, liveVessels, isDone, subscription,
                    errored, raised, lastVessels, liveMarkers, markerPos, onMap,
                    markerHist,
                    received, toggles, renderPending, showMap, mapGen,
                    currentTraceId >>
    /\ UNCHANGED << producerVars, channels, clientVars, serviceVars >>

\* the next callback of the running frame
RunCallback ==
    /\ rafFrame # << >>
    /\ \E st \in { RunOne([ liveMarkers |-> liveMarkers,
                            markerPos   |-> markerPos,
                            onMap       |-> onMap,
                            rafNext     |-> rafNext,
                            markerHist  |-> markerHist,
                            mounted     |-> IF showMap /\ MapCard(response)
                                            THEN mapGen ELSE Null,
                            later       |-> Tail(rafFrame) ],
                          Head(rafFrame)) } :
           /\ liveMarkers' = st.liveMarkers
           /\ markerPos' = st.markerPos
           /\ onMap' = st.onMap
           /\ rafNext' = st.rafNext
           /\ markerHist' = st.markerHist
    /\ rafFrame' = Tail(rafFrame)
    /\ UNCHANGED << liveMode, isConnected, liveVessels, isDone, subscription,
                    errored, raised, lastVessels, received, toggles,
                    renderPending, showMap, mapGen,
                    currentTraceId >>
    /\ UNCHANGED << producerVars, channels, clientVars, serviceVars >>

ConsumerNext ==
    \/ ToggleOn
    \/ ToggleOff
    \/ \E tick \in TickInputs : OnTick(tick)
    \/ Render
    \/ BeginFrame
    \/ RunCallback

(***************************************************************************)
(* Edge function agent-query (src/supabase/functions/agent-query/index.ts) *)
(*                                                                         *)
(* The GraphQL text built from prompt and limit (lines 79-89) only goes to *)
(* Weaviate; Weaviate's answer is an input here, so the text is left out.  *)
(***************************************************************************)
\* setTimeout(() => controller.abort(), 5000) (line 101)
TimeoutMs == 5000

NoPrompt == "<absent>"

\* request bodies: unparsable, or JSON with an optional prompt
Body(isJson, prompt, includePaths) ==
    [json |-> isJson, prompt |-> prompt, includePaths |-> includePaths]

AgentRequests ==
    { [method |-> m, body |-> Body(j, p, i)] :
        m \in {"OPTIONS", "GET", "POST"}, j \in BOOLEAN,
        p \in {NoPrompt, "", "anomalies near svalbard", "fishing vessels"},
        i \in BOOLEAN }

\* an object of Weaviate's result list, or of the demo list
Anomaly(id, mmsi, s, e, gen, n) ==
    [ id |-> id, mmsi |-> mmsi, startLocation |-> s, endLocation |-> e,
      groupedResult |-> gen, pathPoints |-> n ]

\* what the fetch of line 103 does: rejects, or resolves after latencyMs with
\* a status and a body
Weaviate(kind, latencyMs, status, isJson, objs) ==
    [ kind |-> kind, latencyMs |-> latencyMs, status |-> status,
      json |-> isJson, objs |-> objs ]

WeaviateHit ==
    << Anomaly("w-1", 257001000, GeoPoint(7820, 1560), GeoPoint(7830, 1580),
               "Two anomalous tracks near Longyearbyen.", 12),
       Anomaly("w-2", 257002000, GeoPoint(7790, 1490), NoLocation, "", 7) >>

WeaviateOutcomes ==
    { Weaviate("rejected", 0, 0, FALSE, << >>),
      Weaviate("resolved", 6000, 200, TRUE, << >>),
      Weaviate("resolved", 5001, 200, TRUE, WeaviateHit),
      Weaviate("resolved", 300, 500, TRUE, << >>),
      Weaviate("resolved", 300, 422, TRUE, WeaviateHit),
      Weaviate("resolved", 300, 502, FALSE, << >>),
      Weaviate("resolved", 300, 200, FALSE, << >>),
      Weaviate("resolved", 300, 200, TRUE, WeaviateHit),
      Weaviate("resolved", 4999, 200, TRUE, << >>) }

\* variant: a fetch without the abort signal
NeverAborted(w) == FALSE

\* the abort timer fires before the fetch has resolved (lines 100-113)
Aborted(w) == w.kind = "resolved" /\ w.latencyMs > TimeoutMs

\* r.ok
IsOk(status) == status >= 200 /\ status <= 299

\* the inner try block ends in its catch (lines 98-125)
WeaviateThrows(w) ==
    \/ w.kind = "rejected"
    \/ Aborted(w)
    \/ ~w.json
    \/ ~IsOk(w.status)

\* the demo list of lines 151-212
DemoObjects ==
    << Anomaly("demo-1", 211002340, GeoPoint(7810, 1550), GeoPoint(7830, 1570),
               "", 28),
       Anomaly("demo-2", 211156800, GeoPoint(7800, 1560), GeoPoint(7825, 1600),
               "", 45),
       Anomaly("demo-3", 211202460, GeoPoint(7825, 1510), GeoPoint(7845, 1550),
               "", 67),
       Anomaly("demo-4", 211336220, GeoPoint(7790, 1590), GeoPoint(7820, 1650),
               "", 89),
       Anomaly("demo-5", 211627240, GeoPoint(7815, 1460), GeoPoint(7840, 1520),
               "", 124) >>

DemoProposal == "DEMO MODE: Weaviate backend unavailable"

\* objs after the try/catch
Objs(w) == IF WeaviateThrows(w) THEN DemoObjects ELSE w.objs

\* objs[0]?._additional?.generate?.groupedResult || "" (line 122)
Generated(objs) == IF Len(objs) = 0 THEN "" ELSE objs[1].groupedResult

\* proposal after the try/catch (lines 123, 214)
Proposal(w) ==
    IF WeaviateThrows(w) THEN DemoProposal
    ELSE IF Generated(w.objs) = ""
         THEN "No relevant anomalous trajectories found."
         ELSE Generated(w.objs)

\* objs.map(...) (lines 220-238); hasPath tells whether lat, lon, ... are set
DataOf(objs, includePaths) ==
    [ k \in 1..Len(objs) |->
        [ id            |-> objs[k].id,
          mmsi          |-> objs[k].mmsi,
          startLocation |-> objs[k].startLocation,
          endLocation   |-> objs[k].endLocation,
          hasPath       |-> includePaths,
          pathPoints    |-> IF includePaths THEN objs[k].pathPoints ELSE 0 ] ]

TraceSteps ==
    << "RAG: Querying Weaviate...", "GEN: OpenAI summary generated.",
       "HITL: Formulating proposal for human." >>

Answer(status, proposal, data, trace) ==
    [status |-> status, proposal |-> proposal, data |-> data, trace |-> trace]

\* the serve handler (lines 51-270)
Handler(req, w) ==
    IF req.method = "OPTIONS" THEN Answer(204, "", << >>, << >>)
    ELSE IF req.method # "POST" THEN Answer(405, "", << >>, << >>)
    ELSE IF ~req.body.json THEN Answer(500, "", << >>, << >>)
    ELSE IF req.body.prompt \in {NoPrompt, ""}
         THEN Answer(400, "", << >>, << >>)
    ELSE Answer(200, Proposal(w), DataOf(Objs(w), req.body.includePaths),
                TraceSteps)

NoRequest == [method |-> "none", body |-> Body(FALSE, NoPrompt, FALSE)]

\* the fetch of line 103 while it has not settled
NoOutcome == Weaviate("pending", 0, 0, FALSE, << >>)

\* no Response returned yet
NoAnswer == Answer(0, "", << >>, << >>)

AgentInit ==
    /\ agentRequest = [req |-> NoRequest, weaviate |-> NoOutcome]
    /\ agentResponse = NoAnswer
    /\ agentStage = "idle"

\* a request arrives: the handler runs to `await req.json()` (lines 51-70)
\* or returns 204 / 405.  Invocations share no state, so one is followed.
Serve(req) ==
    /\ agentStage = "idle"
    /\ agentRequest' = [req |-> req, weaviate |-> NoOutcome]
    /\ IF req.method # "POST"
       THEN /\ agentResponse' = Handler(req, NoOutcome)
            /\ UNCHANGED agentStage
       ELSE /\ agentResponse' = NoAnswer
            /\ agentStage' = "req.json"
    /\ UNCHANGED << producerVars, consumerVars, channels, clientVars,
                    mountVars, sharedVars, cacheVars,
                    feedVars >>

\* req.json() settles: 500 from the outer catch, 400 without a prompt, or
\* the handler runs on to `await fetch(...)` with the abort timer set
\* (lines 70-112)
BodyRead ==
    /\ agentStage = "req.json"
    /\ IF ~agentRequest.req.body.json
          \/ agentRequest.req.body.prompt \in {NoPrompt, ""}
       THEN /\ agentResponse' = Handler(agentRequest.req, NoOutcome)
            /\ agentStage' = "idle"
       ELSE /\ agentStage' = "fetch"
            /\ UNCHANGED agentResponse
    /\ UNCHANGED agentRequest
    /\ UNCHANGED << producerVars, consumerVars, channels, clientVars,
                    mountVars, sharedVars, cacheVars,
                    feedVars >>

\* the fetch settles: rejected, or aborted by the timer, and the catch
\* block and the rest of the handler run (lines 125-259); or resolved, and
\* the handler clears the timer and runs to `await r.json()` (lines 113-114)
FetchSettled(w) ==
    /\ agentStage = "fetch"
    /\ agentRequest' = [agentRequest EXCEPT !.weaviate = w]
    /\ IF w.kind = "rejected" \/ Aborted(w)
       THEN /\ agentResponse' = Handler(agentRequest.req, w)
            /\ agentStage' = "idle"
       ELSE /\ agentStage' = "r.json"
            /\ UNCHANGED agentResponse
    /\ UNCHANGED << producerVars, consumerVars, channels, clientVars,
                    mountVars, sharedVars, cacheVars,
                    feedVars >>

\* r.json() settles and the handler runs to its return (lines 114-259)
ResultRead ==
    /\ agentStage = "r.json"
    /\ agentResponse' = Handler(agentRequest.req, agentRequest.weaviate)
    /\ agentStage' = "idle"
    /\ UNCHANGED agentRequest
    /\ UNCHANGED << producerVars, consumerVars, channels, clientVars,
                    mountVars, sharedVars, cacheVars,
                    feedVars >>

AgentNext ==
    \/ \E req \in AgentRequests : Serve(req)
    \/ BodyRead
    \/ \E w \in WeaviateOutcomes : FetchSettled(w)
    \/ ResultRead

(***************************************************************************)
(* RealtimeManager shared by two telemetry hooks (realtime.ts:26-100): the *)
(* hook of Dashboard (ActivityFeed.tsx:181) and the hook of TrajectoryMap  *)
(* (Dashboard.tsx:588), each with its own effect, and a publisher          *)
(***************************************************************************)
MaxChannels == 4

MaxBroadcasts == 3
\* trace events handed to the transport in one exploration
MaxTraces == 2

Subscribers == {"Dashboard", "TrajectoryMap"}

SharedInit ==
    /\ subscribers = [h \in Subscribers |-> Null]
    /\ delivered = [h \in Subscribers |-> 0]
    /\ traceChannels = {}
    /\ traceSubscribers = << >>
    /\ traces = << >>

\* realtimeManager.subscribeTelemetry(onTick, onError) called by the effect
\* of hook h (realtime.ts:30-50): a channel of its own with the handler for
\* "tick" events, stored under the key "telemetry"; ticks sent before it
\* are not replayed
SubscribeTelemetry(h) ==
    /\ subscribers[h] = Null
    /\ MicrotasksDrained
    /\ channelSeq < MaxChannels
    /\ channelSeq' = NewChannel(channelSeq)
    /\ handlers' = handlers \cup {NewChannel(channelSeq)}
    /\ transport' = JoinedTransport(transport, NewChannel(channelSeq))
    /\ channels' = SubscribedChannels(channels, NewChannel(channelSeq))
    /\ subscribers' = [subscribers EXCEPT ![h] = NewChannel(channelSeq)]
    /\ delivered' = [delivered EXCEPT ![h] = Len(published)]
    /\ UNCHANGED << traceChannels, traceSubscribers, traces >>
    /\ UNCHANGED << producerVars, consumerVars, agentVars, mountVars,
                    cacheVars, feedVars >>

\* the function returned to hook h, called by its cleanup (realtime.ts:51-54)
UnsubscribeTelemetry(h) ==
    /\ subscribers[h] # Null
    /\ MicrotasksDrained
    /\ transport' = RemovedChannel(transport, subscribers[h])
    /\ channels' = UnsubscribedChannels(channels)
    /\ subscribers' = [subscribers EXCEPT ![h] = Null]
    /\ UNCHANGED << delivered, traceChannels, traceSubscribers, traces >>
    /\ UNCHANGED << producerVars, consumerVars, handlers, channelSeq,
                    agentVars, mountVars, cacheVars, feedVars >>

\* ticks a publisher passes to broadcastTick
SharedTicks ==
    { WithTraceId(ObservationTick(<< Obs(211002340, 7800, 1500, 0) >>),
                  PropTraceId),
      WithTraceId(DoneTick, PropTraceId) }

\* realtimeManager.broadcastTick(tick) up to its first await
\* (realtime.ts:84-95)
BroadcastTick(tick) ==
    /\ MicrotasksDrained
    /\ Len(published) < MaxBroadcasts
    /\ channelSeq < MaxChannels
    /\ Broadcast(tick, [ session |-> 0, gen |-> 0, src |-> << >>,
                         seq |-> Len(published) + Len(subscribing) + 1,
                         awaited |-> ~HasTelemetry(channels) ])
    /\ UNCHANGED << isStreaming, progress, intervalRef, iteratorsRef, timers,
                    closures, awaitingTick, awaitingStop, traceIdProp, uuidSeq,
                    toast, session, iterGen, exhausted, userStopped,
                    outcomes, channels, unmounted >>
    /\ UNCHANGED << consumerVars, serviceVars >>

\* the broadcast handler of hook h's channel (realtime.ts:38-40) is given
\* the next published tick; a channel that left the transport gets none
DeliverTick(h) ==
    /\ subscribers[h] \in transport
    /\ MicrotasksDrained
    /\ delivered[h] < Len(published)
    /\ delivered' = [delivered EXCEPT ![h] = @ + 1]
    /\ UNCHANGED << subscribers, traceChannels, traceSubscribers, traces >>
    /\ UNCHANGED << producerVars, consumerVars, channels, clientVars,
                    agentVars, mountVars, cacheVars, feedVars >>

\* realtimeManager.subscribeTrace(onTrace, onError) (realtime.ts:57-77): a
\* channel of its own with the handler for "trace" events, stored under the
\* key "trace"; events sent before it are not replayed
SubscribeTrace ==
    /\ MicrotasksDrained
    /\ channelSeq < MaxChannels
    /\ channelSeq' = NewChannel(channelSeq)
    /\ transport' = JoinedTransport(transport, NewChannel(channelSeq))
    /\ traceChannels' = traceChannels \cup {NewChannel(channelSeq)}
    /\ channels' = ("trace" :> NewChannel(channelSeq)) @@ channels
    /\ traceSubscribers' =
           (NewChannel(channelSeq) :> Len(traces)) @@ traceSubscribers
    /\ UNCHANGED << subscribers, delivered, traces >>
    /\ UNCHANGED << producerVars, consumerVars, handlers, agentVars,
                    mountVars, cacheVars, feedVars >>

\* the function subscribeTrace returned for channel c (realtime.ts:78-81)
UnsubscribeTrace(c) ==
    /\ c \in DOMAIN traceSubscribers
    /\ MicrotasksDrained
    /\ transport' = RemovedChannel(transport, c)
    /\ channels' = [ k \in DOMAIN channels \ {"trace"} |-> channels[k] ]
    /\ traceSubscribers' =
           [ d \in DOMAIN traceSubscribers \ {c} |-> traceSubscribers[d] ]
    /\ UNCHANGED << subscribers, delivered, traceChannels, traces >>
    /\ UNCHANGED << producerVars, consumerVars, handlers, channelSeq,
                    agentVars, mountVars, cacheVars, feedVars >>

\* realtimeManager.broadcastTrace(event) up to its first await
\* (realtime.ts:102-113): with the key registered the event goes to
\* channel.send at once; otherwise a channel is created and subscribed and
\* the call is suspended at line 109
BroadcastTrace(event) ==
    /\ MicrotasksDrained
    /\ Len(traces) < MaxTraces
    /\ IF "trace" \in DOMAIN channels
       THEN /\ traces' = HandOff(traces, event)
            /\ UNCHANGED << subscribing, clientVars, traceChannels >>
       ELSE /\ channelSeq < MaxChannels
            /\ subscribing' = Append(subscribing,
                                  [ key     |-> "trace",
                                    tick    |-> event,
                                    channel |-> NewChannel(channelSeq) ])
            /\ channelSeq' = NewChannel(channelSeq)
            /\ transport' = JoinedTransport(transport, NewChannel(channelSeq))
            /\ traceChannels' = traceChannels \cup {NewChannel(channelSeq)}
            /\ UNCHANGED << traces, handlers >>
    /\ UNCHANGED << subscribers, delivered, traceSubscribers >>
    /\ UNCHANGED << isStreaming, progress, intervalRef, iteratorsRef, timers,
                    closures, awaitingTick, awaitingStop, published,
                    traceIdProp, uuidSeq, toast, session, pubInfo, iterGen,
                    exhausted, userStopped, outcomes, channels, unmounted >>
    /\ UNCHANGED << consumerVars, agentVars, mountVars, cacheVars, feedVars >>

\* broadcastTrace after `await channel.subscribe()` (realtime.ts:110-117)
TraceResume ==
    /\ subscribing # << >>
    /\ Head(subscribing).key = "trace"
    /\ channels' = ("trace" :> Head(subscribing).channel) @@ channels
    /\ traces' = HandOff(traces, Head(subscribing).tick)
    /\ subscribing' = Tail(subscribing)
    /\ UNCHANGED << subscribers, delivered, traceChannels, traceSubscribers >>
    /\ UNCHANGED << isStreaming, progress, intervalRef, iteratorsRef, timers,
                    closures, awaitingTick, awaitingStop, published,
                    traceIdProp, uuidSeq, toast, session, pubInfo, iterGen,
                    exhausted, userStopped, outcomes, unmounted >>
    /\ UNCHANGED << consumerVars, clientVars, agentVars, mountVars,
                    cacheVars, feedVars >>

\* the broadcast handler of trace channel c (realtime.ts:66-68) is given
\* the next event sent; a channel that left the transport gets none
DeliverTrace(c) ==
    /\ c \in DOMAIN traceSubscribers
    /\ c \in transport
    /\ MicrotasksDrained
    /\ traceSubscribers[c] < Len(traces)
    /\ traceSubscribers' = [traceSubscribers EXCEPT ![c] = @ + 1]
    /\ UNCHANGED << subscribers, delivered, traceChannels, traces >>
    /\ UNCHANGED << producerVars, consumerVars, channels, clientVars,
                    agentVars, mountVars, cacheVars, feedVars >>

\* realtimeManager.cleanup() (realtime.ts:120-123): the channels the
\* registry holds are removed and the registry is emptied; the unsubscribe
\* functions handed out stay with their callers
Cleanup ==
    /\ MicrotasksDrained
    /\ channels # << >>
    /\ transport' = transport \ { channels[k] : k \in DOMAIN channels }
    /\ channels' = << >>
    /\ UNCHANGED << subscribers, delivered, traceChannels, traceSubscribers,
                    traces >>
    /\ UNCHANGED << producerVars, consumerVars, handlers, channelSeq,
                    agentVars, mountVars, cacheVars, feedVars >>

SharedNext ==
    \/ \E h \in Subscribers : SubscribeTelemetry(h)
    \/ \E h \in Subscribers : UnsubscribeTelemetry(h)
    \/ \E tick \in SharedTicks : BroadcastTick(tick)
    \/ BroadcastResume
    \/ \E h \in Subscribers : DeliverTick(h)
    \/ SubscribeTrace
    \/ \E c \in 1..MaxChannels : UnsubscribeTrace(c)
    \/ \E event \in { [ traceId   |-> PropTraceId,
                         step      |-> "query",
                         timestamp |-> 1 ] } : BroadcastTrace(event)
    \/ TraceResume
    \/ \E c \in 1..MaxChannels : DeliverTrace(c)
    \/ Cleanup

(***************************************************************************)
(* QueryCache (supabase/functions/_shared/cache.ts:9-44)                   *)
(***************************************************************************)
MaxElapses == 3

\* constructor(ttlMs = 5 * 60 * 1000) (cache.ts:13), in milliseconds
ttlMs == 300000

CacheKeys == {"query:ships near svalbard:5", "query:ice:10"}

\* payloads passed to set, told apart by a positive number
CacheData == {1, 2}

\* milliseconds by which Date.now() advances between two calls
ClockSteps == {1, ttlMs \div 2, ttlMs}

NoEntry == [data |-> Null, timestamp |-> Undefined]

NoResult == [key |-> "", value |-> Null]

CacheInit ==
    /\ cache = [k \in {} |-> NoEntry]
    /\ now = 0
    /\ cacheResult = NoResult
    /\ latest = [k \in CacheKeys |-> NoEntry]
    /\ elapses = 0

\* variant: an entry that expires when its age reaches the TTL
ExpiredAtTtl(age, ttl) == age >= ttl

\* age > this.ttlMs (cache.ts:29)
Expired(age, ttl) == age > ttl

\* this.cache.set(key, {data, timestamp: Date.now()}) (cache.ts:18-21)
CacheWith(c, key, data, t) ==
    [ k \in DOMAIN c \cup {key} |->
        IF k = key THEN [data |-> data, timestamp |-> t] ELSE c[k] ]

\* this.cache.delete(key) (cache.ts:30)
CacheWithout(c, key) == [ k \in DOMAIN c \ {key} |-> c[k] ]

\* the return value of get(key) (cache.ts:24-35)
GetValue(c, key, t) ==
    IF key \notin DOMAIN c THEN Null
    ELSE IF Expired(t - c[key].timestamp, ttlMs) THEN Null
    ELSE c[key].data

\* the map after get(key)
GetCache(c, key, t) ==
    IF key \in DOMAIN c /\ Expired(t - c[key].timestamp, ttlMs)
    THEN CacheWithout(c, key)
    ELSE c

\* queryCache.set(key, data) (cache.ts:17-22)
CacheSet(key, data) ==
    /\ cache' = CacheWith(cache, key, data, now)
    /\ latest' = [latest EXCEPT ![key] = [data |-> data, timestamp |-> now]]
    /\ cacheResult' = NoResult
    /\ UNCHANGED << now, elapses >>
    /\ UNCHANGED << producerVars, consumerVars, channels, clientVars,
                    agentVars, mountVars, sharedVars, feedVars >>

\* queryCache.get(key) (cache.ts:24-35)
CacheGet(key) ==
    /\ cacheResult' = [key |-> key, value |-> GetValue(cache, key, now)]
    /\ cache' = GetCache(cache, key, now)
    /\ UNCHANGED << now, latest, elapses >>
    /\ UNCHANGED << producerVars, consumerVars, channels, clientVars,
                    agentVars, mountVars, sharedVars, feedVars >>

\* queryCache.clear() (cache.ts:37-39)
CacheClear ==
    /\ cache' = [k \in {} |-> NoEntry]
    /\ latest' = [k \in CacheKeys |-> NoEntry]
    /\ cacheResult' = NoResult
    /\ UNCHANGED << now, elapses >>
    /\ UNCHANGED << producerVars, consumerVars, channels, clientVars,
                    agentVars, mountVars, sharedVars, feedVars >>

\* time passes between two calls; Date.now() does not go back
Elapse(ms) ==
    /\ elapses < MaxElapses
    /\ elapses' = elapses + 1
    /\ now' = now + ms
    /\ cacheResult' = NoResult
    /\ UNCHANGED << cache, latest >>
    /\ UNCHANGED << producerVars, consumerVars, channels, clientVars,
                    agentVars, mountVars, sharedVars, feedVars >>

CacheNext ==
    \/ \E key \in CacheKeys, data \in CacheData : CacheSet(key, data)
    \/ \E key \in CacheKeys : CacheGet(key)
    \/ CacheClear
    \/ \E ms \in ClockSteps : Elapse(ms)

(***************************************************************************)
(* ActivityFeed (ActivityFeed.tsx:12-33) with getQueryHistory and          *)
(* subscribeToQueryHistory (realtime.ts:181-217) and the table they read   *)
(***************************************************************************)
MaxRows == 2

MaxRevisions == 2

\* a row of query_history (migration, lines 2-10): rev stands for the
\* values of its columns approved and rationale
Entry(id, trace, rev) == [id |-> id, trace_id |-> trace, rev |-> rev]

ChangeEvent(type, entry) == [eventType |-> type, new |-> entry]

FeedInit ==
    /\ history = << >>
    /\ loadState = "sent"
    /\ snapshot = << >>
    /\ events = << >>
    /\ queryHistory = << >>
    /\ nextId = 1
    /\ receivedLatest = << >>

RECURSIVE Reverse(_)
Reverse(rows) ==
    IF rows = << >> THEN << >>
    ELSE Append(Reverse(Tail(rows)), Head(rows))

\* select("*").order("created_at", {ascending: false}).limit(50); the
\* table never holds more than 50 rows here
SelectHistory(rows) == Reverse(rows)

Ids(list) == { list[i].id : i \in 1..Len(list) }

\* the updater passed to setHistory by the callback (ActivityFeed.tsx:21-27)
Upserted(prev, entry) ==
    IF entry.id \in Ids(prev)
    THEN [ i \in 1..Len(prev) |->
             IF prev[i].id = entry.id THEN entry ELSE prev[i] ]
    ELSE << entry >> \o prev

\* payload.eventType === "INSERT" || payload.eventType === "UPDATE"
IsInsertOrUpdate(e) == e.eventType \in {"INSERT", "UPDATE"}

\* one UPDATE event per row with the trace_id among the first n rows, in
\* the order of the rows, each with the row as it is after the update
RECURSIVE UpdateEvents(_, _, _)
UpdateEvents(rows, trace, n) ==
    IF n = 0 THEN << >>
    ELSE IF rows[n].trace_id = trace
         THEN Append(UpdateEvents(rows, trace, n - 1),
                     ChangeEvent("UPDATE", rows[n]))
         ELSE UpdateEvents(rows, trace, n - 1)

\* a row is inserted for the query with the trace id: by saveQuery
\* (realtime.ts:140-161, called at part_003:57) and, for the same trace id,
\* by the edge function agent-approve (part_000:34-40); the database gives
\* the row its id, and the change is broadcast
InsertRow(trace) ==
    /\ nextId <= MaxRows
    /\ queryHistory' = Append(queryHistory, Entry(nextId, trace, 1))
    /\ nextId' = nextId + 1
    /\ events' = Append(events, ChangeEvent("INSERT", Entry(nextId, trace, 1)))
    /\ UNCHANGED << history, loadState, snapshot, receivedLatest >>
    /\ UNCHANGED << producerVars, consumerVars, channels, clientVars,
                    agentVars, mountVars, sharedVars, cacheVars >>

\* updateQueryApproval(traceId, approved) (realtime.ts:163-179, called at
\* part_003:102): all rows with the trace_id are updated, each change is
\* broadcast; with no such row nothing changes
UpdateRow(trace) ==
    /\ \E i \in 1..Len(queryHistory) : queryHistory[i].trace_id = trace
    /\ \A i \in 1..Len(queryHistory) :
          queryHistory[i].trace_id = trace =>
              queryHistory[i].rev < MaxRevisions
    /\ queryHistory' =
           [ i \in 1..Len(queryHistory) |->
               IF queryHistory[i].trace_id = trace
               THEN [queryHistory[i] EXCEPT !.rev = @ + 1]
               ELSE queryHistory[i] ]
    /\ events' = events \o UpdateEvents(queryHistory', trace,
                                        Len(queryHistory))
    /\ UNCHANGED << history, loadState, snapshot, nextId, receivedLatest >>
    /\ UNCHANGED << producerVars, consumerVars, channels, clientVars,
                    agentVars, mountVars, sharedVars, cacheVars >>

\* the database answers the select of getQueryHistory (realtime.ts:182-186),
\* with the rows or with an error, for which the function returns []
AnswerSelect(ok) ==
    /\ loadState = "sent"
    /\ loadState' = "answered"
    /\ snapshot' = IF ok THEN SelectHistory(queryHistory) ELSE << >>
    /\ UNCHANGED << history, events, queryHistory, nextId, receivedLatest >>
    /\ UNCHANGED << producerVars, consumerVars, channels, clientVars,
                    agentVars, mountVars, sharedVars, cacheVars >>

\* getQueryHistory().then(setHistory) (ActivityFeed.tsx:17)
LoadResolved ==
    /\ loadState = "answered"
    /\ loadState' = "done"
    /\ history' = snapshot
    /\ UNCHANGED << snapshot, events, queryHistory, nextId, receivedLatest >>
    /\ UNCHANGED << producerVars, consumerVars, channels, clientVars,
                    agentVars, mountVars, sharedVars, cacheVars >>

\* the postgres_changes handler (realtime.ts:208-212) and the callback of
\* ActivityFeed (ActivityFeed.tsx:20-28) for the next payload
OnChange ==
    /\ events # << >>
    /\ events' = Tail(events)
    /\ IF IsInsertOrUpdate(Head(events))
       THEN /\ history' = Upserted(history, Head(events).new)
            /\ receivedLatest' =
                   (Head(events).new.id :> Head(events).new) @@ receivedLatest
       ELSE UNCHANGED << history, receivedLatest >>
    /\ UNCHANGED << loadState, snapshot, queryHistory, nextId >>
    /\ UNCHANGED << producerVars, consumerVars, channels, clientVars,
                    agentVars, mountVars, sharedVars, cacheVars >>

\* the trace ids of the queries are 1..MaxRows
FeedNext ==
    \/ \E trace \in 1..MaxRows : InsertRow(trace)
    \/ \E trace \in 1..MaxRows : UpdateRow(trace)
    \/ \E ok \in BOOLEAN : AnswerSelect(ok)
    \/ LoadResolved
    \/ OnChange

(***************************************************************************)
(* Specifications: the producer of one dashboard, and its consumer fed     *)
(* with the ticks of other dashboards                                      *)
(***************************************************************************)
Init ==
    /\ ProducerInit /\ ConsumerInit /\ AgentInit /\ MountInit /\ SharedInit
    /\ CacheInit /\ FeedInit

\* the producer of a dashboard that goes live, with its map shown or hidden
Next == ProducerNext \/ ToggleOn \/ HideMap

Spec == Init /\ [][Next]_vars

\* the dashboard renders LiveProducer with traceId = response.traceId
\* (part_003:671-678)
InitDashboard == Init /\ traceIdProp = PropTraceId

\* the same with one more restart
NextRestarts == ProducerNextRestarts \/ ToggleOn \/ HideMap

SpecRestarts == Init /\ [][NextRestarts]_vars

\* the producer of a dashboard whose map is hidden and shown again, so that
\* the hook's channel comes and goes while ticks are sent
NextOrder == ProducerNext \/ ToggleOn \/ HideMap \/ ShowMap

SpecOrder == Init /\ [][NextOrder]_vars

\* the edge function serving requests
SpecAgent == Init /\ [][AgentNext]_vars

\* the producer of a dashboard whose user toggles live mode and asks new
\* queries, the map staying shown
NextMount ==
    \/ MountedSession
    \/ \E t \in 1..MaxSessions : TimerFire(t)
    \/ BroadcastResume
    \/ \E s \in 1..MaxSessions : TickResume(s)
    \/ \E s \in 1..MaxSessions : StopResume(s)
    \/ StopClick
    \/ ToggleOn
    \/ ToggleOff
    \/ ClearResponse
    \/ \E len \in {0, 2} : QueryResult(len)

SpecMount == InitDashboard /\ [][NextMount]_vars

\* two telemetry hooks and a publisher on one RealtimeManager
SpecShared == InitDashboard /\ [][SharedNext]_vars

\* the edge functions' query cache
SpecCache == InitDashboard /\ [][CacheNext]_vars

\* the activity feed, its initial load and its subscription
SpecFeed == InitDashboard /\ [][FeedNext]_vars

\* one consumer fed with the ticks of other dashboards
SpecConsumer == InitDashboard /\ [][ConsumerNext]_vars

\* one consumer whose channel reports its subscribe status and whose map is
\* hidden and shown again
NextSubscription ==
    \/ ToggleOn
    \/ ToggleOff
    \/ HideMap
    \/ ShowMap
    \/ \E tick \in SubscriptionTicks : OnTick(tick)
    \/ \E status \in {"SUBSCRIBED"} \cup ConnectionFailures :
          ChannelStatus(status)
    \/ Render
    \/ BeginFrame
    \/ RunCallback

SpecSubscription == InitDashboard /\ [][NextSubscription]_vars

\* one consumer whose map is hidden and shown again
NextMap ==
    \/ ConsumerNext
    \/ HideMap
    \/ ShowMap

SpecMap == InitDashboard /\ [][NextMap]_vars

(***************************************************************************)
(* Reading the publication history                                         *)
(***************************************************************************)
\* positions in `published` of the ticks sent by the interval of session s
TicksOf(s) == { i \in 1..Len(published) : pubInfo[i].session = s }

DoneTicksOf(s) == { i \in TicksOf(s) : published[i].done }

ObsTicksOf(s) == { i \in TicksOf(s) : ~published[i].done }

\* a trajectory summary without startLocation or without endLocation
LacksEndpoint(traj) ==
    ~traj.startLocation.defined \/ ~traj.endLocation.defined

RECURSIVE IdxSeq(_, _, _)
\* idx values, in tick order, of the observations of vessel m among the
\* first n published ticks that belong to session s
IdxSeq(s, m, n) ==
    IF n = 0 THEN << >>
    ELSE IF pubInfo[n].session = s
         THEN IdxSeq(s, m, n - 1) \o
              [ j \in 1..Len(SelectSeq(published[n].vessels,
                                       LAMBDA v : v.mmsi = m))
                  |-> SelectSeq(published[n].vessels,
                                LAMBDA v : v.mmsi = m)[j].idx ]
         ELSE IdxSeq(s, m, n - 1)

RECURSIVE EmittedFrom(_, _, _)
\* observations, in tick order, that session s emitted from trajectory k of
\* its own trajectory list, among the first n published ticks
EmittedFrom(s, k, n) ==
    IF n = 0 THEN << >>
    ELSE IF pubInfo[n].session = s /\ pubInfo[n].gen = s
            /\ \E j \in 1..Len(pubInfo[n].src) : pubInfo[n].src[j] = k
         THEN Append(EmittedFrom(s, k, n - 1),
                     published[n].vessels[
                        CHOOSE j \in 1..Len(pubInfo[n].src) :
                            pubInfo[n].src[j] = k ])
         ELSE EmittedFrom(s, k, n - 1)

\* vessel identifiers that occur in published observations
AllMmsi ==
    UNION { { published[i].vessels[j].mmsi : j \in 1..Len(published[i].vessels) }
            : i \in 1..Len(published) }

(***************************************************************************)
(* C1: every session that completes naturally (never stopped by the user)  *)
(* publishes exactly one done tick, it has an empty vessels list, and no   *)
(* tick of that session is published after it.                             *)
(***************************************************************************)
C1_OneDoneTickAndLast ==
    \A s \in exhausted \ userStopped :
        /\ MicrotasksDrained => Cardinality(DoneTicksOf(s)) = 1
        /\ \A i \in DoneTicksOf(s) :
              /\ published[i].vessels = << >>
              /\ \A j \in TicksOf(s) : j <= i

(***************************************************************************)
(* C2: a session whose interval the user stopped with stopStream(false)    *)
(* before the producer found the trajectories exhausted never publishes a  *)
(* done tick.                                                              *)
(***************************************************************************)
C2_NoDoneAfterUserStop ==
    \A s \in userStopped : DoneTicksOf(s) = {} /\ s \notin timers

C2_Witness ==
    \E s \in userStopped :
        /\ ObsTicksOf(s) # {}
        /\ awaitingTick[s] = 0
        /\ session > s
        /\ Len(published) = MaxTicks

(***************************************************************************)
(* C3: within one session, for every vessel identifier, the idx values of  *)
(* its observations in tick order are 0, 1, 2, ...                         *)
(***************************************************************************)
C3_IdxCountsFromZero ==
    \A s \in 1..session : \A m \in AllMmsi :
        \A k \in 1..Len(IdxSeq(s, m, Len(published))) :
            IdxSeq(s, m, Len(published))[k] = k - 1

(***************************************************************************)
(* C4: a trajectory that lacks startLocation or endLocation contributes no *)
(* observation to any tick; its point sequence is empty and its index      *)
(* stays 0.                                                                *)
(***************************************************************************)
C4_NoEndpointsNoObservation ==
    /\ \A i \in 1..Len(published) : \A j \in 1..Len(pubInfo[i].src) :
          ~LacksEndpoint(
              closures[pubInfo[i].gen].trajectories[pubInfo[i].src[j]])
    /\ \A k \in 1..Len(iteratorsRef) :
          LacksEndpoint(closures[iterGen].trajectories[k]) =>
              /\ iteratorsRef[k].points = << >>
              /\ iteratorsRef[k].index = 0

C4_Witness ==
    /\ \E k \in 1..Len(iteratorsRef) :
          LacksEndpoint(closures[iterGen].trajectories[k])
    /\ \E k \in 1..Len(iteratorsRef) : iteratorsRef[k].index > 1
    /\ iterGen \in exhausted

(***************************************************************************)
(* C5: for every trajectory with both endpoints a completed session emits  *)
(* exactly `steps` points, the first at the start coordinate and the last  *)
(* at the end coordinate.                                                  *)
(***************************************************************************)
C5_ExactlyStepsPoints ==
    \A s \in exhausted : \A k \in 1..Len(closures[s].trajectories) :
        ~LacksEndpoint(closures[s].trajectories[k]) =>
            LET obs  == EmittedFrom(s, k, Len(published))
                traj == closures[s].trajectories[k]
            IN  /\ Len(obs) = steps
                /\ obs[1].lat = traj.startLocation.latitude
                /\ obs[1].lon = traj.startLocation.longitude
                /\ obs[Len(obs)].lat = traj.endLocation.latitude
                /\ obs[Len(obs)].lon = traj.endLocation.longitude

(***************************************************************************)
(* C6: a completed session configured for `steps` points per trajectory    *)
(* publishes exactly `steps` observation ticks, and the tick right after   *)
(* the last of them is the done tick with empty vessels.                   *)
(***************************************************************************)
C6_StepsTicksThenDone ==
    \A s \in exhausted :
        (\E k \in 1..Len(closures[s].trajectories) :
            ~LacksEndpoint(closures[s].trajectories[k])) =>
        /\ Cardinality(ObsTicksOf(s)) = steps
        /\ \A i \in DoneTicksOf(s) :
              /\ published[i].vessels = << >>
              /\ \A j \in ObsTicksOf(s) : j < i

(***************************************************************************)
(* C7: when a second tick for a vessel arrives before the interpolation of *)
(* the first has finished, the marker stands at the second tick's          *)
(* coordinate once all animation-frame callbacks have run.                 *)
(***************************************************************************)
C7_EndsAtSupersedingTick ==
    (rafFrame = << >> /\ rafNext = << >>) =>
        \A k \in 1..Len(markerPos) :
            markerHist[k].superseded =>
                markerPos[k] = markerHist[k].target

(***************************************************************************)
(* C8: at any time at most one interpolation loop is moving a given        *)
(* marker: a loop superseded by a new tick performs no further updates.    *)
(***************************************************************************)
C8_AtMostOneLoopPerMarker ==
    \A k \in 1..Len(markerPos) :
        Cardinality(ActiveLoops(rafFrame \o rafNext, k)) <= 1

(***************************************************************************)
(* C9: when a frame callback of the rendered TrajectoryMap processes an    *)
(* observation for a vessel id without a marker, it creates exactly one    *)
(* marker for that id, on the map, at the observation's exact (lat, lon),  *)
(* and starts no interpolation for that observation: the only loops of the *)
(* new marker are those of later observations of the same id in the same   *)
(* tick.                                                                   *)
(***************************************************************************)
C9_MarkerCreatedAtObservation ==
    [][ ( /\ rafFrame # << >>
          /\ Head(rafFrame).kind = "effect"
          /\ showMap
          /\ MapCard(response)
          /\ Head(rafFrame).map = mapGen ) =>
          LET vs      == Head(rafFrame).vessels
              fresh   == { j \in 1..Len(vs) :
                             /\ vs[j].mmsi \notin DOMAIN liveMarkers
                             /\ \A i \in 1..(j - 1) :
                                   vs[i].mmsi # vs[j].mmsi }
              created == (Len(markerPos) + 1)..Len(markerPos')
          IN  /\ Cardinality(created) = Cardinality(fresh)
              /\ \A j \in fresh :
                    /\ vs[j].mmsi \in DOMAIN liveMarkers'
                    /\ liveMarkers'[vs[j].mmsi] \in created
                    /\ liveMarkers'[vs[j].mmsi] \in onMap'
                    /\ markerPos'[liveMarkers'[vs[j].mmsi]] =
                          [lat |-> vs[j].lat, lng |-> vs[j].lon]
                    /\ Cardinality(ActiveLoops(rafNext',
                                               liveMarkers'[vs[j].mmsi])) =
                          Cardinality({ i \in (j + 1)..Len(vs) :
                                          vs[i].mmsi = vs[j].mmsi })
      ]_vars

C9_Witness ==
    /\ received = 1
    /\ rafFrame = << >>
    /\ rafNext = << >>
    /\ Len(markerPos) = 2
    /\ onMap = {1, 2}
    /\ 211156800 \in DOMAIN liveMarkers
    /\ markerPos[liveMarkers[211156800]] =
          [lat |-> Double(7700, 100), lng |-> Double(1400, 100)]

(***************************************************************************)
(* C10: once stopStream(false) has cleared a session's timer, no tick of   *)
(* that session is published and no timer callback of it updates the tick  *)
(* count or the progress, a callback suspended at broadcastTick included.  *)
(***************************************************************************)
C10_NothingAfterUserStop ==
    [][ \A s \in userStopped :
          /\ TicksOf(s)' = TicksOf(s)
          /\ closures'[s].tickCount = closures[s].tickCount
          /\ (awaitingTick'[s] < awaitingTick[s] => progress' = progress)
      ]_vars

(***************************************************************************)
(* C11: while live mode is off, no live marker is on the map and the       *)
(* consumer's marker map is empty, whatever tick-handling or               *)
(* animation-frame callbacks were pending when it was toggled off.         *)
(***************************************************************************)
C11_NoMarkersWhileLiveOff ==
    ~liveMode => (liveMarkers = << >> /\ onMap = {})

(***************************************************************************)
(* C12: ticks are handled only while the consumer is subscribed, and no    *)
(* animation-frame callback changes the position of a marker that has been *)
(* removed from the map.                                                   *)
(***************************************************************************)
C12_RemovedMarkersStayPut ==
    [][ /\ received' # received => liveMode
        /\ \A k \in 1..Len(markerPos) :
              k \notin onMap => markerPos'[k] = markerPos[k]
      ]_vars

(***************************************************************************)
(* C13: once the consumer has handled a tick with done = true, a tick      *)
(* handled later on the same subscription changes neither liveVessels nor  *)
(* the frame callbacks that move or create markers.                        *)
(***************************************************************************)
C13_NoChangeAfterDone ==
    [][ (isDone /\ received' # received) =>
            (liveVessels' = liveVessels /\ rafNext' = rafNext) ]_vars

(***************************************************************************)
(* C14: once the telemetry channel has reported a failure of the           *)
(* connection (the status CHANNEL_ERROR, TIMED_OUT or CLOSED), isConnected *)
(* is false for as long as that subscription lasts; isConnected turns true *)
(* only in a step that establishes a new subscription, and a new           *)
(* subscription appears only in a step of the user that enables the hook:  *)
(* Go Live, or Show with live mode on.                                     *)
(***************************************************************************)
C14_DisconnectedUntilResubscribed ==
    /\ [](errored => ~isConnected)
    /\ [][ /\ (~isConnected /\ isConnected') =>
                 (subscription' # subscription /\ subscription' # Null)
           /\ (subscription' # subscription /\ subscription' # Null) =>
                 \/ (~liveMode /\ liveMode' /\ showMap)
                 \/ (~showMap /\ showMap' /\ liveMode)
         ]_vars

(***************************************************************************)
(* C15: handling a tick that has no vessels array never ends in an         *)
(* exception.                                                              *)
(***************************************************************************)
C15_MissingVesselsIsNoOp == ~raised

(***************************************************************************)
(* C16: every channel whose unsubscribe function has been invoked is gone  *)
(* from the transport, and a tick is handled only while the hook holds a   *)
(* subscription whose unsubscribe function has not been invoked.           *)
(***************************************************************************)
C16_UnsubscribeStopsDelivery ==
    /\ [](\A c \in handlers \ {subscription} : c \notin transport)
    /\ [][ received' # received =>
              (subscription # Null /\ subscription \in transport) ]_vars

C16_Witness ==
    /\ subscription = Null
    /\ handlers # {}
    /\ transport = {}
    /\ received > 0
    /\ toggles = MaxToggles

(***************************************************************************)
(* C17: the ticks of one session are handed to channel.send in the order   *)
(* in which the interval callbacks generated them, the broadcastTick call  *)
(* that awaits the channel subscription included.                          *)
(***************************************************************************)
C17_SentInGenerationOrder ==
    \A i, j \in 1..Len(published) :
        (i < j /\ pubInfo[i].session = pubInfo[j].session) =>
            pubInfo[i].seq < pubInfo[j].seq

\* the first broadcastTick of a session awaited the channel subscription,
\* a later tick of the session has been sent, and two of the session's
\* calls are pending at once
C17_Witness ==
    \E s \in 1..session :
        /\ awaitingTick[s] = MaxInflight
        /\ \E i, j \in TicksOf(s) : i < j /\ pubInfo[i].awaited

(***************************************************************************)
(* C18: all ticks published by one session, the done tick included, carry  *)
(* the same traceId, whether or not the traceId prop was supplied.         *)
(***************************************************************************)
C18_OneTraceIdPerSession ==
    \A i, j \in 1..Len(published) :
        pubInfo[i].session = pubInfo[j].session =>
            published[i].traceId = published[j].traceId

(***************************************************************************)
(* C19: a session started with a non-empty trajectory list and not stopped *)
(* by the user comes to its end by publishing its done tick: as long as    *)
(* its done tick has not been given to broadcastTick its timer is active,  *)
(* and once it has been given the timer is cleared.  The done tick of a    *)
(* session is built only in a callback of the session's own timer          *)
(* (LiveProducer.tsx:80-83, 102-108), so a session whose timer is gone     *)
(* before that can never publish it, however long the other timers run.    *)
(***************************************************************************)
C19_SessionCompletes ==
    \A s \in 1..session :
        s \notin userStopped =>
            LET given == \/ DoneTicksOf(s) # {}
                         \/ \E i \in 1..Len(subscribing) :
                               /\ subscribing[i].info.session = s
                               /\ subscribing[i].tick.done
            IN  s \in timers <=> ~given

(***************************************************************************)
(* C20: no session is shown both "Stream complete" and "Stream stopped";   *)
(* a session shown "Stream stopped" has published no done tick and a       *)
(* session shown "Stream complete" has published one.                      *)
(***************************************************************************)
C20_OneTerminalOutcome ==
    \A s \in 1..session :
        /\ Cardinality(outcomes[s]) <= 1
        /\ "stopped" \in outcomes[s] => DoneTicksOf(s) = {}
        /\ "complete" \in outcomes[s] => DoneTicksOf(s) # {}

(***************************************************************************)
(* C21: when the Weaviate request of a POST with a prompt is rejected,     *)
(* returns a non-OK status or takes longer than the 5-second timeout, the  *)
(* response, once returned, has status 200, non-empty demo data, a         *)
(* non-empty proposal and the three-step trace.                            *)
(***************************************************************************)
C21_FallbackAnswers ==
    LET req == agentRequest.req
        w   == agentRequest.weaviate
    IN  ( /\ agentStage = "idle"
          /\ agentResponse # NoAnswer
          /\ req.method = "POST"
          /\ req.body.json
          /\ req.body.prompt \notin {NoPrompt, ""}
          /\ \/ w.kind = "rejected"
             \/ w.latencyMs > 5000
             \/ w.status < 200
             \/ w.status > 299 ) =>
            /\ agentResponse.status = 200
            /\ Len(agentResponse.data) = 5
            /\ \A k \in 1..5 :
                  agentResponse.data[k].id \in
                      {"demo-1", "demo-2", "demo-3", "demo-4", "demo-5"}
            /\ agentResponse.proposal # ""
            /\ Len(agentResponse.trace) = 3

C21_Witness ==
    /\ agentStage = "idle"
    /\ agentRequest.req.method = "POST"
    /\ agentRequest.req.body.prompt = "fishing vessels"
    /\ agentRequest.weaviate.latencyMs = 5001
    /\ agentRequest.weaviate.objs # << >>
    /\ agentResponse.status = 200
    /\ agentResponse.data[1].id = "demo-1"

(***************************************************************************)
(* C22: at any time at most one interval of LiveProducer is active.        *)
(***************************************************************************)
C22_AtMostOneTimer == Cardinality(timers) <= 1

(***************************************************************************)
(* C23: while a session is streaming, progress equals 100 * (observation   *)
(* ticks of the session whose broadcast has completed) / (maximum point    *)
(* count of its trajectories); within the session it never decreases and   *)
(* it never exceeds 100.                                                   *)
(***************************************************************************)
C23_ProgressIsTicksOverMaxPoints ==
    /\ [] ( (isStreaming /\ intervalRef # Null) =>
              LET s        == intervalRef
                  pending  == Cardinality({ i \in 1..Len(subscribing) :
                                  /\ subscribing[i].info.session = s
                                  /\ ~subscribing[i].tick.done })
                  complete == Cardinality(ObsTicksOf(s)) + pending
                                  - awaitingTick[s]
              IN  /\ progress.num * closures[s].maxPoints =
                        complete * progress.den
                  /\ progress.num <= progress.den )
    /\ [][ (isStreaming /\ isStreaming' /\ session' = session) =>
              progress'.num * progress.den >= progress.num * progress'.den
         ]_vars

(***************************************************************************)
(* C24: liveVessels equals the vessels list of the tick handled last on    *)
(* the current subscription, and is the empty list before the first tick   *)
(* and while live mode is off.                                             *)
(***************************************************************************)
C24_LastTickWins ==
    /\ liveVessels = lastVessels
    /\ (~liveMode \/ received = 0) => liveVessels = << >>

C24_Witness ==
    /\ liveMode
    /\ received = MaxReceived
    /\ Len(liveVessels) = 2
    /\ liveVessels[1].mmsi # liveVessels[2].mmsi
    /\ liveMarkers # << >>

(***************************************************************************)
(* C25: every published tick is either an observation tick with at least   *)
(* one vessel and no done flag, or a done tick with no vessels and done    *)
(* set; an observation tick is never empty, also when no trajectory has    *)
(* both endpoints.                                                         *)
(***************************************************************************)
C25_TicksAreObservationOrDone ==
    \A i \in 1..Len(published) :
        IF published[i].done
        THEN published[i].vessels = << >>
        ELSE published[i].vessels # << >>

\* a session whose trajectories all lack an endpoint published its done tick
\* as its only tick, after a session that published observations
C25_Witness ==
    \E i, j \in 1..Len(published) :
        /\ published[i].done
        /\ closures[pubInfo[i].gen].maxPoints = 0
        /\ TicksOf(pubInfo[i].session) = {i}
        /\ ~published[j].done
        /\ Len(published[j].vessels) = 2

(***************************************************************************)
(* C26: whenever isStreaming is false the timer handle is null and the     *)
(* progress is 0, and both stay so until the next startStream; a tick      *)
(* callback that was in flight when the stream stopped changes neither.    *)
(***************************************************************************)
C26_IdleMeansNoTimerNoProgress ==
    ~isStreaming => (intervalRef = Null /\ progress.num = 0)

(***************************************************************************)
(* C27: once LiveProducer is unmounted while a session is streaming, the   *)
(* session's timer is stopped and no tick is published beyond those that   *)
(* were given to broadcastTick before the unmount.                         *)
(***************************************************************************)
C27_UnmountStopsStream ==
    ~mounted =>
        /\ timers = {}
        /\ Len(published) + Len(subscribing) <= sentAtUnmount

(***************************************************************************)
(* C28: with two telemetry hooks on the shared RealtimeManager, the step   *)
(* in which one hook unsubscribes leaves the channel of the other joined;  *)
(* the 'telemetry' registry entry is present exactly when some telemetry   *)
(* channel, subscribed or lazily created by broadcastTick, is active; and  *)
(* broadcastTick creates a channel only when no telemetry channel is       *)
(* active.                                                                 *)
(***************************************************************************)
C28_SharedRegistryFollowsChannels ==
    /\ [][ \A g, h \in Subscribers :
              ( /\ subscribers[g] # Null
                /\ subscribers'[g] = Null
                /\ g # h
                /\ subscribers[h] \in transport ) =>
                  (subscribers'[h] = subscribers[h] /\
                   subscribers[h] \in transport') ]_vars
    /\ [](MicrotasksDrained =>
            (HasTelemetry(channels) <=> transport \ traceChannels # {}))
    /\ [][ \A i \in (Len(subscribing) + 1)..Len(subscribing') :
              subscribing'[i].key = "telemetry" =>
                  transport \ traceChannels = {} ]_vars

(***************************************************************************)
(* C29: get(key) returns the data of the most recent set(key, data) while  *)
(* the age of that entry is at most the TTL; once the age exceeds the TTL  *)
(* it returns null and the entry is removed; for a key never set, or not   *)
(* set again since the last clear, it returns null.                        *)
(***************************************************************************)
C29_GetReturnsFreshValueOrNull ==
    cacheResult # NoResult =>
        LET key  == cacheResult.key
            last == latest[key]
        IN  IF last # NoEntry /\ now - last.timestamp <= ttlMs
            THEN cacheResult.value = last.data
            ELSE /\ cacheResult.value = Null
                 /\ key \notin DOMAIN cache

\* a get that hit an entry whose age is exactly the TTL, after the other
\* key's entry, set with other data, was removed by a get past its TTL
C29_Witness ==
    /\ cacheResult # NoResult
    /\ cacheResult.value # Null
    /\ now - latest[cacheResult.key].timestamp = ttlMs
    /\ \E k \in CacheKeys \ {cacheResult.key} :
          /\ latest[k] # NoEntry
          /\ latest[k].data # cacheResult.value
          /\ now - latest[k].timestamp > ttlMs
          /\ k \notin DOMAIN cache

(***************************************************************************)
(* C30: whatever the order of the INSERT and UPDATE events given to the    *)
(* feed's subscription callback and of the completion of the initial load, *)
(* the history shows no id twice and shows every entry the callback        *)
(* received, with the payload it received last for that id.                *)
(***************************************************************************)
C30_HistoryKeepsReceivedEntries ==
    /\ \A i, j \in 1..Len(history) :
          history[i].id = history[j].id => i = j
    /\ \A id \in DOMAIN receivedLatest :
          \E i \in 1..Len(history) : history[i] = receivedLatest[id]

=============================================================================
